---- MODULE Spec2Model ----
(***************************************************************************)
(* The client-side finance store (store/useFinanceStore.js) and the        *)
(* transport client (api/client.js) as a state machine.                    *)
(*                                                                         *)
(* One process per invocation of a store action.  JavaScript runs each     *)
(* synchronous block to completion: `cur` names the invocation that holds  *)
(* the event loop (0 when the loop is idle), and every store update        *)
(* (`set`, `_setLoading`, `_setError`) is one step, so the states between  *)
(* two updates of one block are states of the model.  The server and the   *)
(* network are not part of the program.  Under Spec every request is       *)
(* answered by any of the raw responses of Responses; under ServerSpec the *)
(* server stores the transactions and goals it is sent and answers from    *)
(* what it stores; under LagSpec it may read the answer to a GET before    *)
(* the answer is delivered.  LiveSpec is Spec with every request answered  *)
(* in the end.  GoalsPageSpec and TransactionsPageSpec put the handlers    *)
(* and effects of those pages in front of the store.  PureSpec applies the *)
(* functions of the transport client and of the pages to inputs drawn from *)
(* bounded sets, and sends requests from a process whose configuration may *)
(* change.                                                                 *)
(***************************************************************************)
EXTENDS Integers, Sequences, FiniteSets, TLC

VARIABLES
    loading,    \* store.loading: slot -> BOOLEAN
    errors,     \* store.errors: slot -> JNull or a normalized error
    data,       \* the data slices of the store: slice -> value
    procs,      \* the invocations of store actions: id -> frame
    nprocs,     \* number of invocations created so far (children included)
    ncalls,     \* number of invocations made by callers so far
    cur,        \* the invocation holding the event loop, 0 when idle
    settled,    \* the most recent invocation whose promise settled
    server,     \* the server: what it stores, or AnyServer
    given,      \* the input a pure function is applied to
    result      \* what the function returned, NotApplied before the call

vars == <<loading, errors, data, procs, nprocs, ncalls, cur, settled, server,
          given, result>>

(* Bound of the model: the number of store actions callers invoke in one run. *)
MaxCalls == 2

(* seedDemoLoad calls two more actions itself; a handler of the Goals page *)
(* calls three.                                                            *)
MaxProcs == 4 * MaxCalls

----------------------------------------------------------------------------
(* JSON values, as tagged records.                                         *)

JNull == [t |-> "null"]
JTrue == [t |-> "bool", b |-> TRUE]
JFalse == [t |-> "bool", b |-> FALSE]
JText(s) == [t |-> "text", s |-> s]
JList(xs) == [t |-> "list", items |-> xs]
JNum(n) == [t |-> "num", n |-> n]
Undef == [t |-> "undefined"]
NaN == [t |-> "nan"]

(* An object, by the properties the program reads: each is a value or Undef. *)
JObj(id, message, detail, error) ==
    [t |-> "obj", id |-> id, message |-> message, detail |-> detail, error |-> error]

(* JavaScript truthiness: undefined, null, NaN, the empty text, 0 and false are falsy. *)
Truthy(v) ==
    ~(\/ v.t \in {"undefined", "null", "nan"}
      \/ (v.t = "text" /\ v.s = "")
      \/ (v.t = "num" /\ v.n = 0)
      \/ (v.t = "bool" /\ ~v.b))

(* A lookup that prefers the error property to message and detail. *)
ServerMessageErrorFirst(d) ==
    IF d.t # "obj" THEN Undef
    ELSE IF Truthy(d.error) THEN d.error
    ELSE IF Truthy(d.message) THEN d.message
    ELSE d.detail

(* data.message || data.detail || data.error, undefined unless data is an object. *)
ServerMessage(d) ==
    IF d.t # "obj" THEN Undef
    ELSE IF Truthy(d.message) THEN d.message
    ELSE IF Truthy(d.detail) THEN d.detail
    ELSE d.error

(* `Request failed with status ${res.status}` *)
StatusMessage(n) ==
    CASE n = 304 -> "Request failed with status 304"
      [] n = 400 -> "Request failed with status 400"
      [] n = 404 -> "Request failed with status 404"
      [] n = 422 -> "Request failed with status 422"
      [] n = 500 -> "Request failed with status 500"
      [] OTHER   -> "Request failed with status N"

----------------------------------------------------------------------------
(* The transport client: api/client.js.                                    *)

NoArg == "none"

Resolve(v) == [ok |-> TRUE, val |-> v]
Reject(e) == [ok |-> FALSE, val |-> e]

(* What fetch() throws: name, message and String(e) of the exception; it has *)
(* no status and no details property (`e.status || 0`, `e.details || null`).  *)
Thrown(name, message, str) ==
    [name |-> name, message |-> message, status |-> 0, details |-> JNull, str |-> str]

normalizeError(e) ==
    IF e.name = "AbortError"
    THEN [message |-> JText("Request aborted"), status |-> 0, details |-> JNull]
    ELSE IF Truthy(e.message)
    THEN [message |-> e.message, status |-> e.status,
          details |-> IF Truthy(e.details) THEN e.details ELSE JNull]
    ELSE [message |-> JText(e.str), status |-> 0, details |-> JNull]

(* A raw answer to fetch(): an exception, or an HTTP response with its status, *)
(* its content type (JSON or not) and its body as res.json()/res.text() gives  *)
(* it: Unparsable when that call throws on the text of the body, BodyAborted   *)
(* when it throws an AbortError because the abort signal of the caller fired   *)
(* after the response headers had arrived.                                     *)
Unparsable == [t |-> "unparsable"]
BodyAborted == [t |-> "aborted"]
NetFail(e) == [net |-> "throw", e |-> e]
Http(status, isJSON, body) ==
    [net |-> "http", status |-> status, isJSON |-> isJSON, body |-> body]

(* A success range that takes in the redirections. *)
ResOkBelow400(status) == status >= 200 /\ status <= 399

ResOk(status) == status >= 200 /\ status <= 299

(* A request() that never reads the server's message. *)
requestGenericMessage(r) ==
    IF r.net = "throw" THEN Reject(normalizeError(r.e))
    ELSE LET d == IF r.body \in {Unparsable, BodyAborted} THEN JNull ELSE r.body
         IN  IF ~ResOk(r.status)
             THEN Reject([message |-> JText(StatusMessage(r.status)), status |-> r.status,
                          details |-> IF Truthy(d) THEN d ELSE JNull])
             ELSE Resolve(d)

(* request(): the promise's outcome for a raw answer. *)
request(r) ==
    IF r.net = "throw" THEN Reject(normalizeError(r.e))
    ELSE LET d == IF r.body \in {Unparsable, BodyAborted} THEN JNull ELSE r.body
             m == IF Truthy(d) /\ Truthy(ServerMessage(d))
                  THEN ServerMessage(d) ELSE JText(StatusMessage(r.status))
         IN  IF ~ResOk(r.status)
             THEN Reject([message |-> m, status |-> r.status,
                          details |-> IF Truthy(d) THEN d ELSE JNull])
             ELSE Resolve(d)

(* String(v) of a parameter value. *)
StringOf(v) ==
    CASE v.t = "text" -> v.s
      [] v.t = "num" -> ToString(v.n)
      [] v.t = "bool" -> IF v.b THEN "true" ELSE "false"

(* The application/x-www-form-urlencoded form of a name or value, as        *)
(* URLSearchParams.toString() writes it: a space as +, & and = as escapes.  *)
Encode(str) ==
    CASE str = "a&b c" -> "a%26b+c"
      [] str = "x=y" -> "x%3Dy"
      [] OTHER -> str

(* The keys of a parameter object, in the order Object.entries lists them. *)
ParamKeys == <<"start", "end", "category">>

(* A filter that drops only undefined and null. *)
KeptUnlessNullish(v) == ~(v = Undef \/ v = JNull)

(* v !== undefined && v !== null && v !== '' *)
Kept(v) == ~(v = Undef \/ v = JNull \/ v = JText(""))

(* sp.append(k, String(v)) for the entries from the i-th on: the list of *)
(* name-value pairs of the URLSearchParams.                              *)
RECURSIVE Appended(_, _)
Appended(params, i) ==
    IF i > Len(ParamKeys) THEN <<>>
    ELSE (IF Kept(params[ParamKeys[i]])
          THEN << <<ParamKeys[i], StringOf(params[ParamKeys[i]])>> >>
          ELSE <<>>) \o Appended(params, i + 1)

(* sp.toString(): the pairs as name=value, joined by &; a sequence of tokens. *)
RECURSIVE Serialized(_)
Serialized(pairs) ==
    IF pairs = <<>> THEN <<>>
    ELSE <<Encode(pairs[1][1]), "=", Encode(pairs[1][2])>>
            \o (IF Len(pairs) > 1 THEN <<"&">> ELSE <<>>)
            \o Serialized(Tail(pairs))

(* toQuery(params): `?${qs}`, or the empty string when qs is empty. *)
toQuery(params) ==
    LET qs == Serialized(Appended(params, 1))
    IN  IF qs # <<>> THEN <<"?">> \o qs ELSE <<>>

----------------------------------------------------------------------------
(* The store's actions.                                                    *)

FetchKinds == {"fetchSummary", "fetchBehaviors", "fetchOverspendingAlerts",
               "fetchSavingsAdvice", "fetchGoalsPlan", "fetchTransactions",
               "fetchBudgets", "fetchBudgetSummary", "fetchGoals"}
TxWrites == {"createTx", "updateTx", "deleteTx"}
GoalWrites == {"createGoal", "updateGoal", "deleteGoal"}
RefetchWrites == TxWrites \cup GoalWrites
WriteKinds == RefetchWrites \cup {"upsertBudget"}
SeedKinds == {"seedDemoLoad", "seedDemoClear"}
Kinds == FetchKinds \cup WriteKinds \cup SeedKinds

Slots == {"summary", "transactions", "budgets", "goals", "alerts", "advice",
          "goalsPlan", "seed"}
Slices == {"summary", "behaviors", "alerts", "savingsAdvice", "goalsPlan",
           "transactions", "budgets", "budgetSummary", "goals"}
Collections == {"transactions", "budgets", "goals"}

(* The key an action passes to _setLoading and _setError. *)
Slot(k) ==
    CASE k \in {"fetchSummary", "fetchBehaviors"} -> "summary"
      [] k = "fetchOverspendingAlerts" -> "alerts"
      [] k = "fetchSavingsAdvice" -> "advice"
      [] k = "fetchGoalsPlan" -> "goalsPlan"
      [] k = "fetchTransactions" -> "transactions"
      [] k \in {"fetchBudgets", "fetchBudgetSummary"} -> "budgets"
      [] k = "fetchGoals" -> "goals"
      [] k \in SeedKinds -> "seed"

(* The slice an action writes with set({...}). *)
Slice(k) ==
    CASE k = "fetchSummary" -> "summary"
      [] k = "fetchBehaviors" -> "behaviors"
      [] k = "fetchOverspendingAlerts" -> "alerts"
      [] k = "fetchSavingsAdvice" -> "savingsAdvice"
      [] k = "fetchGoalsPlan" -> "goalsPlan"
      [] k \in {"fetchTransactions", "seedDemoClear"} \cup TxWrites -> "transactions"
      [] k = "fetchBudgets" -> "budgets"
      [] k = "fetchBudgetSummary" -> "budgetSummary"
      [] k \in {"fetchGoals"} \cup GoalWrites -> "goals"

Req(method, path, params, body) ==
    [method |-> method, path |-> path, id |-> NoArg, params |-> params, body |-> body]

(* `/transactions/${id}`, `/goals/${id}`: a request for one entity. *)
ItemReq(method, path, id, body) ==
    [method |-> method, path |-> path, id |-> id, params |-> NoArg, body |-> body]

(* The arguments of a call: the id of an entity, and the parameters of a fetch *)
(* or the payload of a write.                                                  *)
Arg(id, v) == [id |-> id, v |-> v]

(* api.listTransactions(), api.listGoals(): the list request of a collection. *)
ListReq(c, params) ==
    CASE c = "transactions" -> Req("GET", "/transactions", params, NoArg)
      [] c = "budgets" -> Req("GET", "/budgets", params, NoArg)
      [] c = "goals" -> Req("GET", "/goals", NoArg, NoArg)

(* The first request of an action called with argument a. *)
FirstReq(k, a) ==
    CASE k = "fetchSummary" -> Req("GET", "/analytics/summary", a.v, NoArg)
      [] k = "fetchBehaviors" -> Req("GET", "/analytics/behaviors", a.v, NoArg)
      [] k = "fetchOverspendingAlerts" -> Req("GET", "/alerts/overspending", a.v, NoArg)
      [] k = "fetchSavingsAdvice" ->
            Req("GET", "/advice/savings", IF a.v = NoArg THEN "month" ELSE a.v, NoArg)
      [] k = "fetchGoalsPlan" -> Req("GET", "/advice/goals-plan", NoArg, NoArg)
      [] k = "fetchTransactions" -> ListReq("transactions", a.v)
      [] k = "fetchBudgets" -> ListReq("budgets", a.v)
      [] k = "fetchBudgetSummary" -> Req("GET", "/budgets/summary", a.v, NoArg)
      [] k = "fetchGoals" -> ListReq("goals", NoArg)
      [] k = "createTx" -> Req("POST", "/transactions", NoArg, a.v)
      [] k = "updateTx" -> ItemReq("PUT", "/transactions/:id", a.id, a.v)
      [] k = "deleteTx" -> ItemReq("DELETE", "/transactions/:id", a.id, NoArg)
      [] k = "upsertBudget" -> Req("POST", "/budgets", NoArg, a.v)
      [] k = "createGoal" -> Req("POST", "/goals", NoArg, a.v)
      [] k = "updateGoal" -> ItemReq("PUT", "/goals/:id", a.id, a.v)
      [] k = "deleteGoal" -> ItemReq("DELETE", "/goals/:id", a.id, NoArg)
      [] k = "seedDemoLoad" -> Req("POST", "/seed/demo/load", NoArg, a.v)
      [] k = "seedDemoClear" -> Req("DELETE", "/seed/demo/clear", NoArg, NoArg)

(* A refresh that repeats the filter of the page. *)
RefetchReqFiltered(k) == ListReq(Slice(k), "q1")

(* The list request a write action sends after its mutation: no arguments. *)
RefetchReq(k) == ListReq(Slice(k), NoArg)

IsListReq(q) == q.method = "GET" /\ q.path \in {"/transactions", "/budgets", "/goals"}

(* The raw answers a request can get from any server. *)
Bodies(q) ==
    IF IsListReq(q) THEN {JList(<<"e1">>), JList(<<"e2", "e3">>)}
    ELSE {JObj(JText("o1"), Undef, Undef, Undef)}
DbDown == JObj(Undef, JText("db down"), Undef, Undef)
FailedToFetch ==
    Thrown("TypeError", JText("Failed to fetch"), "TypeError: Failed to fetch")
Responses(q) ==
    {Http(200, TRUE, b) : b \in Bodies(q)}
        \cup {Http(200, TRUE, Unparsable), Http(500, TRUE, DbDown), NetFail(FailedToFetch)}

----------------------------------------------------------------------------
(* The server.  It is not part of the program: AnyServer answers a request *)
(* with any of Responses; a storing server keeps the transactions and      *)
(* goals it is sent, assigns their ids, and answers a request from what it *)
(* stores at the moment the answer is delivered.                           *)

AnyServer == [mode |-> "any"]
Entity(id, fields) == [t |-> "entity", id |-> id, fields |-> fields]
JPlan(ids) == [t |-> "plan", goals |-> ids]
Storing(txs, goals, created) ==
    [mode |-> "storing", rows |-> [transactions |-> txs, goals |-> goals],
     created |-> created]

(* The id the server assigns to the n-th entity it creates. *)
IdOf(n) == "e" \o ToString(n)

CollectionOf(q) ==
    IF q.path \in {"/transactions", "/transactions/:id"} THEN "transactions"
    ELSE IF q.path \in {"/goals", "/goals/:id"} THEN "goals"
    ELSE "none"

IdsOf(rows) == {rows[i].id : i \in 1 .. Len(rows)}

(* The filter q1 admits the entities whose visible fields are p1. *)
Admits(params, fields) == params = NoArg \/ (params = "q1" /\ fields = "p1")

(* A request for an entity the server does not store. *)
Missing(sv, q) ==
    /\ q.method \in {"PUT", "DELETE"}
    /\ CollectionOf(q) # "none"
    /\ q.id \notin IdsOf(sv.rows[CollectionOf(q)])

(* What the server stores once it has handled request q. *)
Applied(sv, q) ==
    LET c == CollectionOf(q) IN
    CASE q.method = "POST" /\ c # "none" ->
            [sv EXCEPT !.rows[c] = Append(@, Entity(IdOf(sv.created + 1), q.body)),
                       !.created = @ + 1]
      [] q.method = "PUT" /\ c # "none" ->
            [sv EXCEPT !.rows[c] =
                [i \in 1 .. Len(sv.rows[c]) |->
                    IF sv.rows[c][i].id = q.id THEN Entity(q.id, q.body)
                    ELSE sv.rows[c][i]]]
      [] q.method = "DELETE" /\ c # "none" ->
            [sv EXCEPT !.rows[c] = SelectSeq(@, LAMBDA e : e.id # q.id)]
      [] q.path = "/seed/demo/load" ->
            [sv EXCEPT !.rows["transactions"] = Append(@, Entity(IdOf(sv.created + 1), "p1")),
                       !.rows["goals"] = Append(@, Entity(IdOf(sv.created + 2), "p1")),
                       !.created = @ + 2]
      [] q.path = "/seed/demo/clear" -> [sv EXCEPT !.rows["transactions"] = <<>>]
      [] OTHER -> sv

(* The body of the answer of a storing server to a request it accepts. *)
ServerBody(sv, q) ==
    LET c == CollectionOf(q) IN
    CASE q.method = "GET" /\ c # "none" ->
            JList(SelectSeq(sv.rows[c], LAMBDA e : Admits(q.params, e.fields)))
      [] q.path = "/advice/goals-plan" ->
            JPlan([i \in 1 .. Len(sv.rows["goals"]) |-> sv.rows["goals"][i].id])
      [] q.method = "POST" /\ c # "none" -> Entity(IdOf(sv.created + 1), q.body)
      [] q.method = "PUT" /\ c # "none" -> Entity(q.id, q.body)
      [] q.method = "DELETE" /\ c # "none" -> JNull
      [] OTHER -> JObj(JText("o1"), Undef, Undef, Undef)

NotFound == JObj(Undef, Undef, JText("Not found"), Undef)

(* The raw answers of a storing server: it handles the request, or it fails. *)
Served(sv, q) ==
    {IF Missing(sv, q) THEN Http(404, TRUE, NotFound) ELSE Http(200, TRUE, ServerBody(sv, q)),
     Http(500, TRUE, DbDown), NetFail(FailedToFetch)}

(* The server once answer r to request q is delivered. *)
Handled(q, r) ==
    IF server.mode = "storing" /\ r.net = "http" /\ ResOk(r.status)
    THEN Applied(server, q) ELSE server

(* The servers a run can start with. *)
StoringServers ==
    {Storing(<<>>, <<>>, 0),
     Storing(<<Entity(IdOf(1), "p1")>>, <<Entity(IdOf(2), "p1"), Entity(IdOf(3), "p2")>>, 3)}

(* The arguments callers pass. *)
Payloads == IF server.mode = "any" THEN {"p1"} ELSE {"p1", "p2"}
KnownIds(c) == IF server.mode = "any" THEN {"e1"} ELSE IdsOf(server.rows[c])
ArgsOf(k) ==
    IF k \in {"fetchGoalsPlan", "fetchGoals", "seedDemoClear"} THEN {Arg(NoArg, NoArg)}
    ELSE IF k \in {"fetchTransactions", "fetchBudgets"}
    THEN {Arg(NoArg, NoArg), Arg(NoArg, "q1")}
    ELSE IF k \in FetchKinds THEN {Arg(NoArg, "q1")}
    ELSE IF k \in {"updateTx", "updateGoal"}
    THEN {Arg(id, v) : id \in KnownIds(Slice(k)), v \in Payloads}
    ELSE IF k \in {"deleteTx", "deleteGoal"}
    THEN {Arg(id, NoArg) : id \in KnownIds(Slice(k))}
    ELSE {Arg(NoArg, v) : v \in Payloads}

----------------------------------------------------------------------------
(* Invocation frames.                                                      *)

NoResp == [net |-> "none"]
Idle == [kind |-> "none", pc |-> "idle", arg |-> Arg(NoArg, NoArg), parent |-> 0,
         reqs |-> <<>>,
         resp |-> NoResp, res |-> JNull, waiting |-> {}, snap |-> NoResp]
Frame(k, pc, a, parent, reqs) ==
    [kind |-> k, pc |-> pc, arg |-> a, parent |-> parent, reqs |-> reqs,
     resp |-> NoResp, res |-> JNull, waiting |-> {}, snap |-> NoResp]
NoneSettled == [proc |-> 0, kind |-> "none", ok |-> TRUE, val |-> JNull,
                reqs |-> <<>>, resp |-> NoResp]

PIds == 1 .. MaxProcs

NoGiven == [fn |-> "none"]
NotApplied == [t |-> "notApplied"]

StoreInit ==
    /\ loading = [s \in Slots |-> FALSE]
    /\ errors = [s \in Slots |-> JNull]
    /\ data = [c \in Slices |-> IF c \in Collections THEN JList(<<>>) ELSE JNull]
    /\ procs = [p \in PIds |-> Idle]
    /\ nprocs = 0
    /\ ncalls = 0
    /\ cur = 0
    /\ settled = NoneSettled

Init ==
    /\ StoreInit
    /\ server = AnyServer
    /\ given = NoGiven
    /\ result = NotApplied

(* The store with a server that stores what it is sent. *)
ServerInit ==
    /\ StoreInit
    /\ server \in StoringServers
    /\ given = NoGiven
    /\ result = NotApplied

----------------------------------------------------------------------------
(* Store updates.                                                          *)

(* _setLoading(key, value) *)
SetLoading(s, v) == [loading EXCEPT ![s] = v]

(* _setError(key, value) *)
SetError(s, v) == [errors EXCEPT ![s] = v]

(* `data || []` *)
OrEmpty(d) == IF Truthy(d) THEN d ELSE JList(<<>>)

(* A set({slice: data.items || []}) that takes the list payload for a page *)
(* object: a list has no such property.                                    *)
SliceValueOfItems(k, d) == IF Slice(k) \in Collections THEN JList(<<>>) ELSE d

(* The value set({slice: ...}) stores for payload d: collections default to []. *)
SliceValue(k, d) == IF Slice(k) \in Collections THEN OrEmpty(d) ELSE d

(* A set() that appends the payload to the collection it already holds. *)
SetSliceMerged(k, d) ==
    [data EXCEPT ![Slice(k)] =
        IF Slice(k) \in Collections /\ SliceValue(k, d).t = "list"
        THEN JList(@.items \o SliceValue(k, d).items) ELSE SliceValue(k, d)]

(* set({slice: value}) of action k on payload d *)
SetSlice(k, d) == [data EXCEPT ![Slice(k)] = SliceValue(k, d)]

(* The request in flight of an invocation waiting at an await. *)
InFlight(p) == procs[p].reqs[Len(procs[p].reqs)]

(* The raw answers invocation p may receive now: when the server has read *)
(* its answer already, that answer or a failure.                          *)
Answers(p) ==
    IF procs[p].pc # "await" THEN {}
    ELSE IF server.mode = "any" THEN Responses(InFlight(p))
    ELSE IF procs[p].snap # NoResp
    THEN {procs[p].snap, Http(500, TRUE, DbDown), NetFail(FailedToFetch)}
    ELSE Served(server, InFlight(p))

Awaiting(p, kinds) == cur = 0 /\ procs[p].kind \in kinds /\ procs[p].pc = "await"

(* The promise of invocation p settles with outcome o: p's frame is dropped and *)
(* Promise.allSettled of the caller, if any, no longer waits for it.            *)
SettledAs(p, o) ==
    [proc |-> p, kind |-> procs[p].kind, ok |-> o.ok, val |-> o.val,
     reqs |-> procs[p].reqs, resp |-> procs[p].resp]
Dropped(p) ==
    [q \in PIds |->
        IF q = p THEN Idle
        ELSE IF q = procs[p].parent THEN [procs[q] EXCEPT !.waiting = @ \ {p}]
        ELSE procs[q]]

----------------------------------------------------------------------------
(* Entry of an action.                                                     *)

(* A caller invokes action k with argument a.  The fetch-style and seed actions *)
(* start with _setLoading(key, true); the write actions send their request at   *)
(* once and touch neither loading nor errors.                                   *)
Invoke(k, a) ==
    /\ cur = 0
    /\ ncalls < MaxCalls
    /\ ncalls' = ncalls + 1
    /\ nprocs' = nprocs + 1
    /\ IF k \in WriteKinds
       THEN /\ procs' = [procs EXCEPT ![nprocs + 1] =
                            Frame(k, "await", a, 0, <<FirstReq(k, a)>>)]
            /\ UNCHANGED <<loading, cur>>
       ELSE /\ loading' = SetLoading(Slot(k), TRUE)
            /\ procs' = [procs EXCEPT ![nprocs + 1] = Frame(k, "clearError", a, 0, <<>>)]
            /\ cur' = nprocs + 1
    /\ UNCHANGED <<errors, data, settled, server, given, result>>

fetchSummary == \E a \in ArgsOf("fetchSummary") : Invoke("fetchSummary", a)
fetchBehaviors == \E a \in ArgsOf("fetchBehaviors") : Invoke("fetchBehaviors", a)
fetchOverspendingAlerts ==
    \E a \in ArgsOf("fetchOverspendingAlerts") : Invoke("fetchOverspendingAlerts", a)
fetchSavingsAdvice == \E a \in ArgsOf("fetchSavingsAdvice") : Invoke("fetchSavingsAdvice", a)
fetchGoalsPlan == \E a \in ArgsOf("fetchGoalsPlan") : Invoke("fetchGoalsPlan", a)
fetchTransactions == \E a \in ArgsOf("fetchTransactions") : Invoke("fetchTransactions", a)
fetchBudgets == \E a \in ArgsOf("fetchBudgets") : Invoke("fetchBudgets", a)
fetchBudgetSummary == \E a \in ArgsOf("fetchBudgetSummary") : Invoke("fetchBudgetSummary", a)
fetchGoals == \E a \in ArgsOf("fetchGoals") : Invoke("fetchGoals", a)
createTx == \E a \in ArgsOf("createTx") : Invoke("createTx", a)
updateTx == \E a \in ArgsOf("updateTx") : Invoke("updateTx", a)
deleteTx == \E a \in ArgsOf("deleteTx") : Invoke("deleteTx", a)
upsertBudget == \E a \in ArgsOf("upsertBudget") : Invoke("upsertBudget", a)
createGoal == \E a \in ArgsOf("createGoal") : Invoke("createGoal", a)
updateGoal == \E a \in ArgsOf("updateGoal") : Invoke("updateGoal", a)
deleteGoal == \E a \in ArgsOf("deleteGoal") : Invoke("deleteGoal", a)
seedDemoLoad == \E a \in ArgsOf("seedDemoLoad") : Invoke("seedDemoLoad", a)
seedDemoClear == \E a \in ArgsOf("seedDemoClear") : Invoke("seedDemoClear", a)

(* Where control goes when invocation p reaches its first await: back into *)
(* seedDemoLoad when it called p and has its second call still to make.    *)
ReturnTo(p) ==
    IF procs[p].parent # 0 /\ procs[procs[p].parent].pc \in {"spawnGoals", "refreshPlan"}
    THEN procs[p].parent ELSE 0

(* An entry that leaves the previous error in place. *)
ErrorsOnEntryKept(k) == errors

(* _setError(key, null) at the entry of action k *)
ErrorsOnEntry(k) == SetError(Slot(k), JNull)

(* _setError(key, null), then the request is sent and the action awaits it. *)
ClearError(p) ==
    /\ cur = p
    /\ procs[p].pc = "clearError"
    /\ errors' = ErrorsOnEntry(procs[p].kind)
    /\ procs' = [procs EXCEPT ![p] =
                    [@ EXCEPT !.pc = "await",
                              !.reqs = <<FirstReq(procs[p].kind, procs[p].arg)>>]]
    /\ cur' = ReturnTo(p)
    /\ UNCHANGED <<loading, data, nprocs, ncalls, settled, server, given, result>>

----------------------------------------------------------------------------
(* Fetch-style actions: the continuation after `await api.x(...)`.         *)

(* A continuation that drops the response when a newer invocation of the same *)
(* action has been made since.                                                *)
FetchResolveFresh(p, r) ==
    /\ Awaiting(p, FetchKinds)
    /\ request(r).ok
    /\ data' = IF \/ \E q \in PIds : q > p /\ procs[q].kind = procs[p].kind
                  \/ (settled.proc > p /\ settled.kind = procs[p].kind)
               THEN data
               ELSE [data EXCEPT ![Slice(procs[p].kind)] =
                        SliceValue(procs[p].kind, request(r).val)]
    /\ procs' = [procs EXCEPT ![p] = [@ EXCEPT !.pc = "finally", !.resp = r]]
    /\ cur' = p
    /\ server' = Handled(InFlight(p), r)
    /\ UNCHANGED <<loading, errors, nprocs, ncalls, settled, given, result>>

(* try: set({slice: data}) *)
FetchResolve(p, r) ==
    /\ Awaiting(p, FetchKinds)
    /\ request(r).ok
    /\ data' = SetSlice(procs[p].kind, request(r).val)
    /\ procs' = [procs EXCEPT ![p] = [@ EXCEPT !.pc = "finally", !.resp = r]]
    /\ cur' = p
    /\ server' = Handled(InFlight(p), r)
    /\ UNCHANGED <<loading, errors, nprocs, ncalls, settled, given, result>>

(* A catch that sends the request once more before it gives up. *)
CatchErrorRetry(p, r) ==
    /\ Awaiting(p, FetchKinds \cup SeedKinds)
    /\ ~request(r).ok
    /\ IF Len(procs[p].reqs) = 1
       THEN /\ procs' = [procs EXCEPT ![p] = [@ EXCEPT !.reqs = Append(@, InFlight(p))]]
            /\ UNCHANGED <<errors, cur>>
       ELSE /\ errors' = SetError(Slot(procs[p].kind), request(r).val)
            /\ procs' = [procs EXCEPT ![p] = [@ EXCEPT !.pc = "finally", !.resp = r]]
            /\ cur' = p
    /\ server' = Handled(InFlight(p), r)
    /\ UNCHANGED <<loading, data, nprocs, ncalls, settled, given, result>>

(* A catch that also empties the slice. *)
CatchErrorClears(p, r) ==
    /\ Awaiting(p, FetchKinds \cup SeedKinds)
    /\ ~request(r).ok
    /\ errors' = SetError(Slot(procs[p].kind), request(r).val)
    /\ data' = IF procs[p].kind \in FetchKinds THEN SetSlice(procs[p].kind, JNull) ELSE data
    /\ procs' = [procs EXCEPT ![p] = [@ EXCEPT !.pc = "finally", !.resp = r]]
    /\ cur' = p
    /\ server' = Handled(InFlight(p), r)
    /\ UNCHANGED <<loading, nprocs, ncalls, settled, given, result>>

(* catch (e): _setError(key, e) *)
CatchError(p, r) ==
    /\ Awaiting(p, FetchKinds \cup SeedKinds)
    /\ ~request(r).ok
    /\ errors' = SetError(Slot(procs[p].kind), request(r).val)
    /\ procs' = [procs EXCEPT ![p] = [@ EXCEPT !.pc = "finally", !.resp = r]]
    /\ cur' = p
    /\ server' = Handled(InFlight(p), r)
    /\ UNCHANGED <<loading, data, nprocs, ncalls, settled, given, result>>

(* An action without a finally block: the flag is left as it is. *)
FinallyKeepsLoading(p) ==
    /\ cur = p
    /\ procs[p].pc = "finally"
    /\ settled' = SettledAs(p, request(procs[p].resp))
    /\ procs' = Dropped(p)
    /\ cur' = 0
    /\ UNCHANGED <<loading, errors, data, nprocs, ncalls, server, given, result>>

(* finally: _setLoading(key, false); the promise settles with `return data`, *)
(* `return res` or `throw e`.                                                *)
Finally(p) ==
    /\ cur = p
    /\ procs[p].pc = "finally"
    /\ loading' = SetLoading(Slot(procs[p].kind), FALSE)
    /\ settled' = SettledAs(p, request(procs[p].resp))
    /\ procs' = Dropped(p)
    /\ cur' = 0
    /\ UNCHANGED <<errors, data, nprocs, ncalls, server, given, result>>

----------------------------------------------------------------------------
(* Write actions.                                                          *)

(* The value a write action returns: res, or true for the delete actions. *)
WriteResult(k, res) == IF k \in {"deleteTx", "deleteGoal"} THEN JTrue ELSE res

(* `await api.createTransaction(payload)` resolved: the list request is sent. *)
MutationResolve(p, r) ==
    /\ Awaiting(p, RefetchWrites)
    /\ Len(procs[p].reqs) = 1
    /\ request(r).ok
    /\ procs' = [procs EXCEPT ![p] =
                    [@ EXCEPT !.res = request(r).val, !.resp = r,
                              !.reqs = Append(@, RefetchReq(procs[p].kind))]]
    /\ server' = Handled(InFlight(p), r)
    /\ UNCHANGED <<loading, errors, data, nprocs, ncalls, cur, settled, given, result>>

(* A write action that stores the response of its mutation. *)
RefetchValueRes(p, r) == procs[p].res

(* `items`: what the write action stores after its list request resolved. *)
RefetchValue(p, r) == request(r).val

(* `await api.listTransactions()` resolved: set({transactions: items || []}). *)
RefetchResolve(p, r) ==
    /\ Awaiting(p, RefetchWrites)
    /\ Len(procs[p].reqs) = 2
    /\ request(r).ok
    /\ data' = SetSlice(procs[p].kind, RefetchValue(p, r))
    /\ settled' = [SettledAs(p, Resolve(WriteResult(procs[p].kind, procs[p].res)))
                      EXCEPT !.resp = r]
    /\ procs' = Dropped(p)
    /\ cur' = procs[p].parent
    /\ server' = Handled(InFlight(p), r)
    /\ UNCHANGED <<loading, errors, nprocs, ncalls, given, result>>

(* upsertBudget: `return res` *)
UpsertResolve(p, r) ==
    /\ Awaiting(p, {"upsertBudget"})
    /\ request(r).ok
    /\ settled' = [SettledAs(p, request(r)) EXCEPT !.resp = r]
    /\ procs' = Dropped(p)
    /\ server' = Handled(InFlight(p), r)
    /\ UNCHANGED <<loading, errors, data, nprocs, ncalls, cur, given, result>>

(* A write action that stores the error of its request like a fetch does. *)
WriteRejectStored(p, r) ==
    /\ Awaiting(p, WriteKinds)
    /\ ~request(r).ok
    /\ errors' = SetError(IF procs[p].kind = "upsertBudget" THEN "budgets"
                          ELSE Slice(procs[p].kind), request(r).val)
    /\ settled' = [SettledAs(p, request(r)) EXCEPT !.resp = r]
    /\ procs' = Dropped(p)
    /\ cur' = procs[p].parent
    /\ server' = Handled(InFlight(p), r)
    /\ UNCHANGED <<loading, data, nprocs, ncalls, given, result>>

(* A request of a write action rejects: the store catches nothing, and the *)
(* caller that awaits the action, if any, goes on.                         *)
WriteReject(p, r) ==
    /\ Awaiting(p, WriteKinds)
    /\ ~request(r).ok
    /\ settled' = [SettledAs(p, request(r)) EXCEPT !.resp = r]
    /\ procs' = Dropped(p)
    /\ cur' = procs[p].parent
    /\ server' = Handled(InFlight(p), r)
    /\ UNCHANGED <<loading, errors, data, nprocs, ncalls, given, result>>

----------------------------------------------------------------------------
(* Seed actions.                                                           *)

(* seedDemoLoad: the seed request resolved; get().fetchTransactions() starts. *)
SeedLoadResolve(p, r) ==
    /\ Awaiting(p, {"seedDemoLoad"})
    /\ request(r).ok
    /\ loading' = SetLoading("transactions", TRUE)
    /\ procs' = [procs EXCEPT
                    ![p] = [@ EXCEPT !.pc = "spawnGoals", !.res = request(r).val,
                                     !.resp = r, !.waiting = {nprocs + 1}],
                    ![nprocs + 1] = Frame("fetchTransactions", "clearError", Arg(NoArg, NoArg), p, <<>>)]
    /\ nprocs' = nprocs + 1
    /\ cur' = nprocs + 1
    /\ server' = Handled(InFlight(p), r)
    /\ UNCHANGED <<errors, data, ncalls, settled, given, result>>

(* seedDemoLoad: get().fetchGoals() starts; then await Promise.allSettled. *)
SeedLoadSpawnGoals(p) ==
    /\ cur = p
    /\ procs[p].pc = "spawnGoals"
    /\ loading' = SetLoading("goals", TRUE)
    /\ procs' = [procs EXCEPT
                    ![p] = [@ EXCEPT !.pc = "awaitAll", !.waiting = @ \cup {nprocs + 1}],
                    ![nprocs + 1] = Frame("fetchGoals", "clearError", Arg(NoArg, NoArg), p, <<>>)]
    /\ nprocs' = nprocs + 1
    /\ cur' = nprocs + 1
    /\ UNCHANGED <<errors, data, ncalls, settled, server, given, result>>

(* Promise.all in place of Promise.allSettled: a failed refresh rejects. *)
JoinOutcomeAll(p) ==
    IF errors["transactions"] # JNull THEN Reject(errors["transactions"])
    ELSE IF errors["goals"] # JNull THEN Reject(errors["goals"])
    ELSE Resolve(procs[p].res)

(* What seedDemoLoad settles with once both refreshes have settled. *)
JoinOutcome(p) == Resolve(procs[p].res)

(* seedDemoLoad: both refreshes settled; return res; finally _setLoading false. *)
SeedLoadJoin(p) ==
    /\ cur = 0
    /\ procs[p].pc = "awaitAll"
    /\ procs[p].waiting = {}
    /\ loading' = SetLoading("seed", FALSE)
    /\ settled' = SettledAs(p, JoinOutcome(p))
    /\ procs' = Dropped(p)
    /\ UNCHANGED <<errors, data, nprocs, ncalls, cur, server, given, result>>

(* A seedDemoClear that leaves the transactions slice to a later fetch. *)
SeedClearKeeps(p, r) ==
    /\ Awaiting(p, {"seedDemoClear"})
    /\ request(r).ok
    /\ procs' = [procs EXCEPT ![p] = [@ EXCEPT !.pc = "finally", !.resp = r]]
    /\ cur' = p
    /\ server' = Handled(InFlight(p), r)
    /\ UNCHANGED <<loading, errors, data, nprocs, ncalls, settled, given, result>>

(* seedDemoClear: the clear request resolved; set({transactions: []}). *)
SeedClearResolve(p, r) ==
    /\ Awaiting(p, {"seedDemoClear"})
    /\ request(r).ok
    /\ data' = [data EXCEPT !["transactions"] = JList(<<>>)]
    /\ procs' = [procs EXCEPT ![p] = [@ EXCEPT !.pc = "finally", !.resp = r]]
    /\ cur' = p
    /\ server' = Handled(InFlight(p), r)
    /\ UNCHANGED <<loading, errors, nprocs, ncalls, settled, given, result>>

----------------------------------------------------------------------------
Invocation ==
    \/ fetchSummary \/ fetchBehaviors \/ fetchOverspendingAlerts
    \/ fetchSavingsAdvice \/ fetchGoalsPlan \/ fetchTransactions
    \/ fetchBudgets \/ fetchBudgetSummary \/ fetchGoals
    \/ createTx \/ updateTx \/ deleteTx \/ upsertBudget
    \/ createGoal \/ updateGoal \/ deleteGoal
    \/ seedDemoLoad \/ seedDemoClear

Next ==
    \/ Invocation
    \/ \E p \in PIds : ClearError(p)
    \/ \E p \in PIds : \E r \in Answers(p) : FetchResolve(p, r)
    \/ \E p \in PIds : \E r \in Answers(p) : CatchError(p, r)
    \/ \E p \in PIds : Finally(p)
    \/ \E p \in PIds : \E r \in Answers(p) : MutationResolve(p, r)
    \/ \E p \in PIds : \E r \in Answers(p) : RefetchResolve(p, r)
    \/ \E p \in PIds : \E r \in Answers(p) : UpsertResolve(p, r)
    \/ \E p \in PIds : \E r \in Answers(p) : WriteReject(p, r)
    \/ \E p \in PIds : \E r \in Answers(p) : SeedLoadResolve(p, r)
    \/ \E p \in PIds : SeedLoadSpawnGoals(p)
    \/ \E p \in PIds : SeedLoadJoin(p)
    \/ \E p \in PIds : \E r \in Answers(p) : SeedClearResolve(p, r)

Spec == Init /\ [][Next]_vars

ServerSpec == ServerInit /\ [][Next]_vars

(* The steps that are not calls: a request in flight is answered, or the *)
(* code after an await runs.                                            *)
Progress ==
    \/ \E p \in PIds : ClearError(p)
    \/ \E p \in PIds : \E r \in Answers(p) : FetchResolve(p, r)
    \/ \E p \in PIds : \E r \in Answers(p) : CatchError(p, r)
    \/ \E p \in PIds : Finally(p)
    \/ \E p \in PIds : \E r \in Answers(p) : MutationResolve(p, r)
    \/ \E p \in PIds : \E r \in Answers(p) : RefetchResolve(p, r)
    \/ \E p \in PIds : \E r \in Answers(p) : UpsertResolve(p, r)
    \/ \E p \in PIds : \E r \in Answers(p) : WriteReject(p, r)
    \/ \E p \in PIds : \E r \in Answers(p) : SeedLoadResolve(p, r)
    \/ \E p \in PIds : SeedLoadSpawnGoals(p)
    \/ \E p \in PIds : SeedLoadJoin(p)
    \/ \E p \in PIds : \E r \in Answers(p) : SeedClearResolve(p, r)

(* The store when every request that is sent is answered in the end and the *)
(* event loop runs every continuation that is ready; callers make a finite  *)
(* number of calls.                                                         *)
LiveSpec == Init /\ [][Next]_vars /\ WF_vars(Progress)

(* A network with latency: the server reads the answer to a GET request from *)
(* what it stores at some moment between the sending of the request and the  *)
(* delivery of the answer, and the answer is delivered later.                *)
ServerAnswers(p) ==
    /\ cur = 0
    /\ server.mode = "storing"
    /\ procs[p].pc = "await"
    /\ InFlight(p).method = "GET"
    /\ procs[p].snap = NoResp
    /\ procs' = [procs EXCEPT ![p] =
                    [@ EXCEPT !.snap = Http(200, TRUE, ServerBody(server, InFlight(p)))]]
    /\ UNCHANGED <<loading, errors, data, nprocs, ncalls, cur, settled, server, given, result>>

LagNext == Next \/ \E p \in PIds : ServerAnswers(p)

(* The store with a storing server behind a network with latency. *)
LagSpec == ServerInit /\ [][LagNext]_vars

----------------------------------------------------------------------------
(* The Goals page: its mount effect and its two handlers call the store.   *)
(* A handler has a frame of its own, the parent of the actions it calls.   *)

HandlerKinds == {"handleSubmit", "handleDelete"}

(* The form of handleSubmit: editing is the goal being edited (NoArg when   *)
(* adding), payload is what the fields hold; p0 is a form without a name or *)
(* with a target amount that is not a number.                               *)
Forms ==
    {Arg(id, v) : id \in {NoArg} \cup KnownIds("goals"), v \in {"p1", "p0"}}
Rejected(payload) == payload = "p0"

(* A handler calls the write action k: its request is sent at once. *)
CallsWrite(h, handler, k, a) ==
    /\ nprocs + 4 <= MaxProcs
    /\ procs' = [procs EXCEPT
                    ![h] = [Frame(handler, "awaitWrite", a, 0, <<>>) EXCEPT !.waiting = {h + 1}],
                    ![h + 1] = Frame(k, "await", a, h, <<FirstReq(k, a)>>)]
    /\ nprocs' = nprocs + 2

(* useEffect(() => { Promise.allSettled([fetchGoals(), fetchGoalsPlan()]) }, []) *)
GoalsMount ==
    /\ cur = 0
    /\ ncalls < MaxCalls
    /\ nprocs + 3 <= MaxProcs
    /\ ncalls' = ncalls + 1
    /\ nprocs' = nprocs + 1
    /\ procs' = [procs EXCEPT ![nprocs + 1] =
                    Frame("mount", "refreshGoals", Arg(NoArg, NoArg), 0, <<>>)]
    /\ cur' = nprocs + 1
    /\ UNCHANGED <<loading, errors, data, settled, server, given, result>>

(* handleSubmit: a form that fails the check returns before any call;     *)
(* otherwise await updateGoal(editing.id, payload) when editing, await    *)
(* createGoal(payload) when adding.                                       *)
handleSubmit ==
    \E a \in Forms :
        /\ cur = 0
        /\ ncalls < MaxCalls
        /\ ncalls' = ncalls + 1
        /\ IF Rejected(a.v)
           THEN UNCHANGED <<procs, nprocs>>
           ELSE CallsWrite(nprocs + 1, "handleSubmit",
                           IF a.id # NoArg THEN "updateGoal" ELSE "createGoal", a)
        /\ UNCHANGED <<loading, errors, data, cur, settled, server, given, result>>

(* handleDelete: nothing when the user does not confirm; otherwise await *)
(* deleteGoal(id).                                                       *)
handleDelete ==
    \E a \in ArgsOf("deleteGoal") : \E confirmed \in BOOLEAN :
        /\ cur = 0
        /\ ncalls < MaxCalls
        /\ ncalls' = ncalls + 1
        /\ IF confirmed
           THEN CallsWrite(nprocs + 1, "handleDelete", "deleteGoal", a)
           ELSE UNCHANGED <<procs, nprocs>>
        /\ UNCHANGED <<loading, errors, data, cur, settled, server, given, result>>

(* A handler that refreshes whatever the write action did. *)
WriteSucceededOrNot == TRUE

(* The await of the write action in the try block returned: the action *)
(* resolved.                                                           *)
WriteSucceeded == settled.ok

(* The write action a handler awaits has settled.  When it resolved, the    *)
(* handler goes on to the refresh; when it rejected, the catch block shows  *)
(* the message and the handler ends.                                        *)
AfterWrite(h) ==
    /\ cur = h
    /\ procs[h].kind \in HandlerKinds
    /\ procs[h].pc = "awaitWrite"
    /\ IF WriteSucceeded
       THEN /\ procs' = [procs EXCEPT ![h] = [@ EXCEPT !.pc = "refreshGoals"]]
            /\ UNCHANGED cur
       ELSE /\ procs' = [procs EXCEPT ![h] = Idle]
            /\ cur' = 0
    /\ UNCHANGED <<loading, errors, data, nprocs, ncalls, settled, server, given, result>>

(* Promise.allSettled([fetchGoals(), ...]): fetchGoals() starts. *)
RefreshGoals(h) ==
    /\ cur = h
    /\ procs[h].pc = "refreshGoals"
    /\ loading' = SetLoading("goals", TRUE)
    /\ procs' = [procs EXCEPT
                    ![h] = [@ EXCEPT !.pc = "refreshPlan", !.waiting = {nprocs + 1}],
                    ![nprocs + 1] = Frame("fetchGoals", "clearError", Arg(NoArg, NoArg), h, <<>>)]
    /\ nprocs' = nprocs + 1
    /\ cur' = nprocs + 1
    /\ UNCHANGED <<errors, data, ncalls, settled, server, given, result>>

(* Promise.allSettled([..., fetchGoalsPlan()]): fetchGoalsPlan() starts. *)
RefreshPlan(h) ==
    /\ cur = h
    /\ procs[h].pc = "refreshPlan"
    /\ loading' = SetLoading("goalsPlan", TRUE)
    /\ procs' = [procs EXCEPT
                    ![h] = [@ EXCEPT !.pc = "awaitRefresh", !.waiting = @ \cup {nprocs + 1}],
                    ![nprocs + 1] =
                        Frame("fetchGoalsPlan", "clearError", Arg(NoArg, NoArg), h, <<>>)]
    /\ nprocs' = nprocs + 1
    /\ cur' = nprocs + 1
    /\ UNCHANGED <<errors, data, ncalls, settled, server, given, result>>

(* Both refreshes have settled: the handler ends. *)
RefreshJoin(h) ==
    /\ cur = 0
    /\ procs[h].pc = "awaitRefresh"
    /\ procs[h].waiting = {}
    /\ procs' = [procs EXCEPT ![h] = Idle]
    /\ UNCHANGED <<loading, errors, data, nprocs, ncalls, cur, settled, server, given, result>>

GoalsNext ==
    \/ GoalsMount
    \/ handleSubmit
    \/ handleDelete
    \/ \E h \in PIds : AfterWrite(h)
    \/ \E h \in PIds : RefreshGoals(h)
    \/ \E h \in PIds : RefreshPlan(h)
    \/ \E h \in PIds : RefreshJoin(h)
    \/ \E p \in PIds : ClearError(p)
    \/ \E p \in PIds : \E r \in Answers(p) : FetchResolve(p, r)
    \/ \E p \in PIds : \E r \in Answers(p) : CatchError(p, r)
    \/ \E p \in PIds : Finally(p)
    \/ \E p \in PIds : \E r \in Answers(p) : MutationResolve(p, r)
    \/ \E p \in PIds : \E r \in Answers(p) : RefetchResolve(p, r)
    \/ \E p \in PIds : \E r \in Answers(p) : WriteReject(p, r)

(* The Goals page over the store and a storing server. *)
GoalsPageSpec == ServerInit /\ [][GoalsNext]_vars

----------------------------------------------------------------------------
(* The Transactions page: its filters (given.arg), the effect that fetches *)
(* the list, and the list it shows.                                        *)

FilterFields == {"start", "end", "category", "type"}
FilterValues(f) ==
    CASE f = "start" -> {"", "2024-05-01"}
      [] f = "end" -> {"", "2024-05-30"}
      [] f = "category" -> {"", "food"}
      [] f = "type" -> {"", "expense", "income"}

(* useState(() => ({ start, end, category: '', type: '' })): the last 30 days. *)
InitialFilters ==
    [start |-> "2024-05-01", end |-> "2024-05-30", category |-> "", type |-> "",
     mounted |-> FALSE]

(* `filters.start || undefined` *)
OrUndefined(s) == IF s = "" THEN Undef ELSE JText(s)

(* The params of the effect: start, end and category; no type. *)
FetchParams(f) ==
    [start |-> OrUndefined(f.start), end |-> OrUndefined(f.end),
     category |-> OrUndefined(f.category)]

(* A dependency list that names the type as well. *)
EffectDepsWithType(f) == <<f.start, f.end, f.category, f.type>>

(* [filters.start, filters.end, filters.category] *)
EffectDeps(f) == <<f.start, f.end, f.category>>

(* fetchTransactions(params).catch(() => {}): the effect calls the store. *)
EffectRuns(params) ==
    /\ cur = 0
    /\ ncalls < MaxCalls
    /\ ncalls' = ncalls + 1
    /\ nprocs' = nprocs + 1
    /\ loading' = SetLoading("transactions", TRUE)
    /\ procs' = [procs EXCEPT ![nprocs + 1] =
                    Frame("fetchTransactions", "clearError", Arg(NoArg, params), 0, <<>>)]
    /\ cur' = nprocs + 1
    /\ UNCHANGED <<errors, data, settled, server>>

(* The page is mounted: the effect runs for the first time. *)
TransactionsMount ==
    /\ given.fn = "Transactions"
    /\ ~given.arg.mounted
    /\ given' = [given EXCEPT !.arg.mounted = TRUE]
    /\ EffectRuns(FetchParams(given.arg))
    /\ UNCHANGED result

(* onChange of a filter control: setFilters((f) => ({ ...f, [field]: value })); *)
(* the page renders again, and the effect runs when one of its dependencies   *)
(* has changed.                                                               *)
SetFilter(field, value) ==
    /\ given.fn = "Transactions"
    /\ given.arg.mounted
    /\ cur = 0
    /\ given.arg[field] # value
    /\ given' = [given EXCEPT !.arg[field] = value]
    /\ IF EffectDeps(given'.arg) # EffectDeps(given.arg)
       THEN EffectRuns(FetchParams(given'.arg))
       ELSE UNCHANGED <<loading, errors, data, procs, nprocs, ncalls, cur, settled, server>>
    /\ UNCHANGED result

(* The type of a transaction of the slice: e1 has none, e2 is an income, *)
(* e3 an expense.                                                        *)
TxType(t) ==
    CASE t = "e1" -> Undef
      [] t = "e2" -> JText("income")
      [] OTHER -> JText("expense")

(* A filter that takes a transaction without a type for an income. *)
TypeOrIncome(t) == IF Truthy(TxType(t)) THEN TxType(t) ELSE JText("income")

(* `t.type || 'expense'` *)
TypeOrExpense(t) == IF Truthy(TxType(t)) THEN TxType(t) ELSE JText("expense")

(* filtered: the list the table shows, before it is sorted by date. *)
filtered ==
    LET transactions == data["transactions"]
        type == given.arg.type
    IN  IF transactions.t # "list" THEN <<>>
        ELSE IF ~Truthy(JText(type)) THEN transactions.items
        ELSE SelectSeq(transactions.items, LAMBDA t : TypeOrExpense(t) = JText(type))

TransactionsInit ==
    /\ StoreInit
    /\ server = AnyServer
    /\ given = [fn |-> "Transactions", arg |-> InitialFilters]
    /\ result = NotApplied

TransactionsNext ==
    \/ TransactionsMount
    \/ \E f \in FilterFields : \E v \in FilterValues(f) : SetFilter(f, v)
    \/ \E p \in PIds : ClearError(p)
    \/ \E p \in PIds : \E r \in Answers(p) : FetchResolve(p, r)
    \/ \E p \in PIds : \E r \in Answers(p) : CatchError(p, r)
    \/ \E p \in PIds : Finally(p)

(* The Transactions page over the store. *)
TransactionsPageSpec == TransactionsInit /\ [][TransactionsNext]_vars

----------------------------------------------------------------------------
(* The functions of the transport client and of the pages, applied to      *)
(* inputs of bounded sets.                                                 *)

(* Parameter objects: every key with one of these values. *)
ParamValues ==
    {Undef, JNull, JText(""), JText("2024-05"), JText("a&b c"), JText("x=y"),
     JNum(0), JFalse}
ParamObjects == [{ParamKeys[i] : i \in 1 .. Len(ParamKeys)} -> ParamValues]

(* Raw answers: statuses, JSON bodies, text bodies and exceptions of fetch(). *)
Statuses == {200, 204, 304, 404, 422, 500}
ErrorObjects ==
    {JObj(Undef, m, d, e) :
        m \in {Undef, JText(""), JText("db down"), JNum(500)},
        d \in {Undef, JText("Not found"), JList(<<"field required">>)},
        e \in {Undef, JText("bad request")}}
JsonBodies == ErrorObjects \cup {JNull, JList(<<>>), Unparsable, BodyAborted}
TextBodies == {JText(""), JText("Bad Gateway"), BodyAborted}
AbortError ==
    Thrown("AbortError", JText("The user aborted a request."),
           "AbortError: The user aborted a request.")
NoMessageError == Thrown("TypeError", JText(""), "TypeError")
RawAnswers ==
    {Http(n, TRUE, b) : n \in Statuses, b \in JsonBodies}
        \cup {Http(n, FALSE, b) : n \in Statuses, b \in TextBodies}
        \cup {NetFail(e) : e \in {FailedToFetch, NoMessageError, AbortError}}

(* Amounts of money and their absent forms, as the API may deliver them. *)
AmountValues ==
    {Undef, JNull} \cup {JNum(n) : n \in {-100, 0, 1, 250, 999, 1000, 2999, 3000, 3001}}

(* Number(v || 0) of an amount. *)
NumberOrZero(v) == IF Truthy(v) THEN v.n ELSE 0

(* Number((num / den * 100).toFixed(1)) for 0 <= num <= den, in tenths of a *)
(* percent: the nearest tenth, the larger one of two equally near.          *)
PctToFixed1(num, den) == (2000 * num + den) \div (2 * den)

(* computeProgress(current, target) of pages/Goals.js; pct in tenths of a percent. *)
computeProgress(current, target) ==
    LET c == NumberOrZero(current)
        t == NumberOrZero(target)
    IN  IF t <= 0 THEN [pct |-> 0]
        ELSE IF c <= 0 THEN [pct |-> 0]
        ELSE IF c >= t THEN [pct |-> 1000]
        ELSE [pct |-> PctToFixed1(c, t)]

(* utilization_pct of a budget-summary row, in tenths of a percent, or absent. *)
UtilizationValues ==
    {Undef, JNull} \cup {JNum(n) : n \in {-50, 0, 699, 700, 701, 899, 900, 901, 950, 1200}}

(* A tone that is danger from 90 percent on. *)
ToneDangerFrom90(utilization_pct) ==
    LET pct == NumberOrZero(utilization_pct)
    IN  IF pct >= 900 THEN "danger" ELSE IF pct >= 700 THEN "warn" ELSE "success"

(* The tone of a budget-summary row: pct > 90 ? 'danger' : pct >= 70 ? 'warn' *)
(* : 'success', with pct = Number(row.utilization_pct || 0) in tenths.        *)
Tone(utilization_pct) ==
    LET pct == NumberOrZero(utilization_pct)
    IN  IF pct > 900 THEN "danger" ELSE IF pct >= 700 THEN "warn" ELSE "success"

(* Bound of the model: the number of rows of a table or list a page is given. *)
MaxRows == 2

(* Budget-summary tables: rows with a spent and a budget. *)
SpentValues == {Undef} \cup {JNum(n) : n \in {-50, 0, 40, 100, 250}}
BudgetValues == {Undef} \cup {JNum(n) : n \in {0, 100}}
SummaryRows == [spent : SpentValues, budget : BudgetValues]
SummaryTables == UNION {[1 .. n -> SummaryRows] : n \in 1 .. MaxRows}

Max2(a, b) == IF a >= b THEN a ELSE b

(* Math.max(...summaryItems.map(i => Math.max(spent || 0, budget || 0, 1))), *)
(* 0 for a table without rows.                                               *)
maxUtilBase(summaryItems) ==
    IF Len(summaryItems) = 0 THEN 0
    ELSE LET base(i) == Max2(Max2(NumberOrZero(summaryItems[i].spent),
                                  NumberOrZero(summaryItems[i].budget)), 1)
         IN  CHOOSE b \in {base(i) : i \in 1 .. Len(summaryItems)} :
                \A i \in 1 .. Len(summaryItems) : base(i) <= b

(* A width in percent, as the quotient num / den it is computed from. *)
Quotient(num, den) == [num |-> num, den |-> den]

(* The width of the bar of a row: Math.min(100, spent / maxUtilBase * 100), *)
(* or 0 when maxUtilBase is 0.                                              *)
BarWidth(summaryItems, i) ==
    LET base == maxUtilBase(summaryItems)
        spent == NumberOrZero(summaryItems[i].spent)
    IN  IF base = 0 THEN Quotient(0, 1)
        ELSE IF spent * 100 > 100 * base THEN Quotient(100, 1)
        ELSE Quotient(spent * 100, base)

(* The placeholder text of the pages: the one character U+2014, an em dash. *)
EmDash == "U+2014"

(* Goals and plan items, by the properties the Goals page reads.  Ids are   *)
(* texts or numbers: the number 1 and the text '1' are different ids.       *)
Goal(id, name, current, target) ==
    [t |-> "goal", id |-> id, name |-> name, current_amount |-> current,
     target_amount |-> target]
PlanItem(id, status, months, completion) ==
    [t |-> "planItem", id |-> id, status |-> status, months_to_target |-> months,
     projected_completion |-> completion]

GoalValues ==
    {Goal(id, Undef, JNum(250), JNum(1000)) : id \in {JText("g1"), JText("g2"), JNum(1), JText("1")}}
        \cup {Goal(id, JText("Car"), Undef, JNum(0)) : id \in {JText("g1"), JText("g2"), JNum(1), JText("1")}}
PlanItemValues ==
    {PlanItem(JText("g1"), JText("ahead"), JNum(5), JText("2025-01")),
     PlanItem(JText("g1"), JText("no_net"), JNull, JNull),
     PlanItem(JNum(1), JText("behind"), JNum(0), JText("2026-03")),
     PlanItem(JText("1"), Undef, Undef, Undef)}
GoalsSlices ==
    {JNull} \cup {JList(gs) : gs \in UNION {[1 .. n -> GoalValues] : n \in 0 .. MaxRows}}
PlanSlices ==
    {JNull} \cup {JPlan(ps) : ps \in UNION {[1 .. n -> PlanItemValues] : n \in 0 .. MaxRows}}

(* goalsPlan?.goals || [] *)
planGoals(goalsPlan) == IF goalsPlan.t = "plan" THEN goalsPlan.goals ELSE <<>>

(* A lookup that compares ids as texts. *)
PlanByIdAsText(items, id) ==
    LET at == {i \in 1 .. Len(items) : StringOf(items[i].id) = StringOf(id)}
    IN  IF at = {} THEN JNull
        ELSE items[CHOOSE i \in at : \A j \in at : j <= i]

(* planById.get(id) || null, planById being the Map the items are set into *)
(* in order: of two items with one id the later one stays.                 *)
PlanById(items, id) ==
    LET at == {i \in 1 .. Len(items) : items[i].id = id}
    IN  IF at = {} THEN JNull
        ELSE items[CHOOSE i \in at : \A j \in at : j <= i]

(* {...g, plan} *)
WithPlan(g, plan) ==
    [f \in DOMAIN g \cup {"plan"} |-> IF f = "plan" THEN plan ELSE g[f]]

(* goalsWithPlan of pages/Goals.js. *)
goalsWithPlan(goals, goalsPlan) ==
    IF ~(goals.t = "list" /\ Len(goals.items) > 0) THEN <<>>
    ELSE [i \in 1 .. Len(goals.items) |->
             WithPlan(goals.items[i], PlanById(planGoals(goalsPlan), goals.items[i].id))]

(* What a row of the goals table shows of a joined goal: the progress and *)
(* the status, months and completion handed to statusBadge.               *)
GoalRow(g) ==
    [progress |-> computeProgress(g.current_amount, g.target_amount),
     status |-> IF g.plan # JNull /\ Truthy(g.plan.status) THEN g.plan.status ELSE JText(EmDash),
     months |-> IF g.plan # JNull /\ g.plan.months_to_target \notin {Undef, JNull}
                THEN g.plan.months_to_target ELSE JNull,
     completion |-> IF g.plan # JNull /\ Truthy(g.plan.projected_completion)
                    THEN g.plan.projected_completion ELSE JNull]

(* Category breakdowns of a summary: the entries in the order Object.entries *)
(* lists them, each a category and its value.                                *)
Categories == <<"Groceries", "Rent", "Fun">>
BreakdownValues == {-50, 0, 100, 300, 1200}
Breakdowns ==
    UNION {{[i \in 1 .. n |-> [cat |-> Categories[i], val |-> vs[i]]] :
                vs \in [1 .. n -> BreakdownValues]} : n \in 0 .. Len(Categories)}

(* Math.max(...Object.values(breakdown)), 0 for a breakdown without entries. *)
maxCategoryVal(breakdown) ==
    IF Len(breakdown) = 0 THEN 0
    ELSE CHOOSE b \in {breakdown[i].val : i \in 1 .. Len(breakdown)} :
            \A i \in 1 .. Len(breakdown) : breakdown[i].val <= b

(* An insertion that ranks the smaller values first. *)
RECURSIVE InsertAscending(_, _)
InsertAscending(e, sorted) ==
    IF sorted = <<>> THEN <<e>>
    ELSE IF Head(sorted).val <= e.val THEN <<Head(sorted)>> \o InsertAscending(e, Tail(sorted))
    ELSE <<e>> \o sorted

(* sort((a, b) => b[1] - a[1]) is stable: an entry is placed behind every *)
(* entry of greater or equal value that precedes it.                      *)
RECURSIVE InsertDescending(_, _)
InsertDescending(e, sorted) ==
    IF sorted = <<>> THEN <<e>>
    ELSE IF Head(sorted).val >= e.val THEN <<Head(sorted)>> \o InsertDescending(e, Tail(sorted))
    ELSE <<e>> \o sorted

RECURSIVE SortedByValue(_)
SortedByValue(entries) ==
    IF entries = <<>> THEN <<>>
    ELSE InsertDescending(entries[Len(entries)],
                          SortedByValue(SubSeq(entries, 1, Len(entries) - 1)))

(* The bar list of the Dashboard: the entries ranked, each with the width *)
(* maxCategoryVal ? val / maxCategoryVal * 100 : 0 of its bar.            *)
CategoryBars(breakdown) ==
    LET ranked == SortedByValue(breakdown)
        top == maxCategoryVal(breakdown)
    IN  [i \in 1 .. Len(ranked) |->
            [cat |-> ranked[i].cat, val |-> ranked[i].val,
             width |-> IF top = 0 THEN Quotient(0, 1)
                       ELSE Quotient(ranked[i].val * 100, top)]]

(* The currency and percent formatters of the pages.                        *)

(* What the three characters U+201A U+00C4 U+00EE of Transactions.js are:   *)
(* the bytes of an em dash read in another encoding.                        *)
MisencodedDash == "U+201A U+00C4 U+00EE"

(* Intl.NumberFormat(..., {style: 'currency'}).format(n): the rendering of *)
(* the amount n, or of NaN.                                                *)
Currency(n) == [t |-> "currency", n |-> n]
CurrencyNaN == [t |-> "currencyNaN"]

Pages == {"Dashboard", "Budgets", "Goals", "Transactions", "Insights"}
PercentPages == {"Dashboard", "Budgets"}

(* The values a formatter is handed: absent ones, NaN, texts and numbers. *)
FormatValues ==
    {Undef, JNull, NaN, JText(""), JText("abc"), JText("12"), JNum(0), JNum(1250), JNum(-50)}

(* typeof n === 'number' *)
IsNumberType(v) == v.t \in {"num", "nan"}

(* Number(v) of a value that is no number: a number, or NaN. *)
ToNumber(v) ==
    CASE v.t \in {"num", "nan"} -> v
      [] v = JNull -> JNum(0)
      [] v = JText("") -> JNum(0)
      [] v = JText("12") -> JNum(12)
      [] OTHER -> NaN

(* formatCurrency(n) of each page. *)
formatCurrency(page, n) ==
    CASE page = "Dashboard" ->
            IF ~IsNumberType(n) THEN JText(EmDash)
            ELSE IF n = NaN THEN CurrencyNaN ELSE Currency(n.n)
      [] page \in {"Budgets", "Goals"} ->
            IF ~IsNumberType(n) \/ n = NaN THEN JText(EmDash) ELSE Currency(n.n)
      [] page = "Transactions" ->
            IF ~IsNumberType(n) \/ n = NaN THEN JText(MisencodedDash) ELSE Currency(n.n)
      [] page = "Insights" ->
            IF ToNumber(n) = NaN THEN JText(EmDash) ELSE Currency(ToNumber(n).n)

(* formatPercent(n) of the Dashboard and of Budgets: Number(n.toFixed(1)), *)
(* n in tenths of a percent.                                               *)
formatPercent(page, n) ==
    IF ~IsNumberType(n) \/ n = NaN THEN JText(EmDash) ELSE JNum(n.n)

(* Behaviors reports, by the properties the Insights page reads. *)
Cat(category, amount) == [t |-> "cat", category |-> category, amount |-> amount]
Day(date, total) == [t |-> "day", date |-> date, total_spent |-> total]
Report(top, day, income) ==
    [t |-> "behaviors", top_spending_categories |-> top, most_expensive_day |-> day,
     income_days_count |-> income]

TopValues ==
    {Undef, JList(<<>>), JList(<<Cat(JText("Rent"), JNum(1200))>>),
     JList(<<Cat(JText("Rent"), JNum(1200)), Cat(JText("Fun"), JNum(100))>>),
     JList(<<JNull, Cat(JText("Fun"), JNum(100))>>)}
DayValues ==
    {Undef, JNull, Day(JText("2024-05-01"), JNum(120)), Day(JText("2024-05-01"), JNum(0)),
     Day(JText("2024-05-01"), JNull), Day(JNull, JNum(120))}
IncomeValues == {Undef, JNull, JNum(0), JNum(1), JNum(2), JText("3")}
BehaviorsSlices ==
    {JNull} \cup {Report(top, day, income) :
                     top \in TopValues, day \in DayValues, income \in IncomeValues}

(* behaviors?.top_spending_categories || [] *)
topCats(behaviors) ==
    IF behaviors # JNull /\ Truthy(behaviors.top_spending_categories)
    THEN behaviors.top_spending_categories ELSE JList(<<>>)

(* behaviors?.most_expensive_day || null *)
mostExpensive(behaviors) ==
    IF behaviors # JNull /\ Truthy(behaviors.most_expensive_day)
    THEN behaviors.most_expensive_day ELSE JNull

(* typeof behaviors?.income_days_count === 'number' ? the count : null *)
incomeDays(behaviors) ==
    IF behaviors # JNull /\ IsNumberType(behaviors.income_days_count)
    THEN behaviors.income_days_count ELSE JNull

hasAny(behaviors) ==
    \/ Len(topCats(behaviors).items) > 0
    \/ mostExpensive(behaviors) # JNull
    \/ incomeDays(behaviors) # JNull

(* A sentence of the narrative, by what it is built from: its subject (the   *)
(* category, the date or the count), the formatted amount, and 'day'/'days'. *)
Sentence(kind, subject, amount, word) ==
    [kind |-> kind, subject |-> subject, amount |-> amount, word |-> word]

(* A test that takes every most_expensive_day that is there. *)
HasDayTotalIfPresent(day) == day # JNull

(* mostExpensive?.date && mostExpensive?.total_spent != null *)
HasDayTotal(day) ==
    /\ day # JNull
    /\ Truthy(day.date)
    /\ day.total_spent \notin {Undef, JNull}

(* narrativeLines of the Insights page. *)
narrativeLines(behaviors) ==
    LET top == topCats(behaviors).items
        day == mostExpensive(behaviors)
        income == incomeDays(behaviors)
    IN  (IF Len(top) > 0 /\ top[1] # JNull
         THEN <<Sentence("leader", top[1].category,
                         formatCurrency("Insights", top[1].amount), "")>>
         ELSE <<>>)
        \o (IF HasDayTotal(day)
            THEN <<Sentence("day", day.date,
                            formatCurrency("Insights", ToNumber(day.total_spent)), "")>>
            ELSE <<>>)
        \o (IF income # JNull
            THEN <<Sentence("income", income, Undef, IF income = JNum(1) THEN "day" ELSE "days")>>
            ELSE <<>>)

(* The configuration of the process: process.env, by the two variables     *)
(* getBaseURL reads, each unset, empty or a URL.                           *)
EnvKeys == {"REACT_APP_API_URL", "REACT_APP_BACKEND_URL"}
EnvValues ==
    {Undef, JText(""), JText("http://api.example/"), JText("http://backend.example//")}
Envs == [EnvKeys -> EnvValues]

(* envUrl.replace(/\/+$/, ''): the text without its trailing slashes. *)
TrimTrailingSlashes(str) ==
    CASE str = "http://api.example/" -> "http://api.example"
      [] str = "http://backend.example//" -> "http://backend.example"
      [] OTHER -> str

(* getBaseURL() in a process whose configuration is env. *)
getBaseURL(env) ==
    TrimTrailingSlashes(
        IF Truthy(env["REACT_APP_API_URL"]) THEN env["REACT_APP_API_URL"].s
        ELSE IF Truthy(env["REACT_APP_BACKEND_URL"]) THEN env["REACT_APP_BACKEND_URL"].s
        ELSE "http://localhost:3001")

(* The category lists a report can deliver, in any order. *)
TopLists ==
    {Undef, JList(<<>>), JList(<<Cat(JText("Rent"), JNum(1200))>>),
     JList(<<Cat(JText("Rent"), JNum(1200)), Cat(JText("Fun"), JNum(100))>>),
     JList(<<Cat(JText("Fun"), JNum(100)), Cat(JText("Rent"), JNum(1200))>>),
     JList(<<Cat(JText("Fun"), JNum(100)), Cat(JText("Food"), JNum(100))>>),
     JList(<<Cat(JText("Fun"), Undef), Cat(JText("Food"), JNum(100))>>)}

(* Number(c.amount || 0) *)
AmountOf(c) == IF Truthy(c.amount) THEN ToNumber(c.amount).n ELSE 0

(* The bar list of the Insights page:                                        *)
(* topCats.slice().sort((a, b) => Number(b.amount || 0) - Number(a.amount || 0)) *)
InsightsBars(behaviors) ==
    LET top == topCats(behaviors).items
        ranked == SortedByValue([i \in 1 .. Len(top) |->
                                    [cat |-> top[i].category, val |-> AmountOf(top[i])]])
    IN  [i \in 1 .. Len(ranked) |-> [category |-> ranked[i].cat, amount |-> ranked[i].val]]

Given(fn, arg) == [fn |-> fn, arg |-> arg]
Returned(v) == [t |-> "returned", val |-> v]

PureInit ==
    /\ StoreInit
    /\ server = AnyServer
    /\ result = NotApplied
    /\ \/ \E ps \in ParamObjects : given = Given("toQuery", ps)
       \/ \E r \in RawAnswers : given = Given("request", r)
       \/ \E c \in AmountValues : \E t \in AmountValues :
             given = Given("computeProgress", [current |-> c, target |-> t])
       \/ \E u \in UtilizationValues : given = Given("Tone", u)
       \/ \E tb \in SummaryTables : \E i \in 1 .. Len(tb) :
             given = Given("BarWidth", [items |-> tb, row |-> i])
       \/ \E gs \in GoalsSlices : \E pl \in PlanSlices :
             given = Given("goalsWithPlan", [goals |-> gs, goalsPlan |-> pl])
       \/ \E b \in Breakdowns : given = Given("CategoryBars", [breakdown |-> b])
       \/ \E b \in BehaviorsSlices : given = Given("narrativeLines", b)
       \/ \E pg \in Pages : \E v \in FormatValues :
             given = Given("formatCurrency", [page |-> pg, n |-> v])
       \/ \E pg \in PercentPages : \E v \in FormatValues :
             given = Given("formatPercent", [page |-> pg, n |-> v])
       \/ \E env \in Envs : given = Given("process", env)
       \/ \E top \in TopLists : \E day \in {Undef, Day(JText("2024-05-01"), JNum(120))} :
             given = Given("Insights", Report(top, day, Undef))

CallToQuery ==
    /\ given.fn = "toQuery"
    /\ result = NotApplied
    /\ result' = Returned(toQuery(given.arg))
    /\ UNCHANGED <<loading, errors, data, procs, nprocs, ncalls, cur, settled, server, given>>

CallRequest ==
    /\ given.fn = "request"
    /\ result = NotApplied
    /\ result' = Returned(request(given.arg))
    /\ UNCHANGED <<loading, errors, data, procs, nprocs, ncalls, cur, settled, server, given>>

CallComputeProgress ==
    /\ given.fn = "computeProgress"
    /\ result = NotApplied
    /\ result' = Returned(computeProgress(given.arg.current, given.arg.target))
    /\ UNCHANGED <<loading, errors, data, procs, nprocs, ncalls, cur, settled, server, given>>

(* One row of the summary list of the Budgets page is rendered. *)
CallTone ==
    /\ given.fn = "Tone"
    /\ result = NotApplied
    /\ result' = Returned(Tone(given.arg))
    /\ UNCHANGED <<loading, errors, data, procs, nprocs, ncalls, cur, settled, server, given>>

CallBarWidth ==
    /\ given.fn = "BarWidth"
    /\ result = NotApplied
    /\ result' = Returned(BarWidth(given.arg.items, given.arg.row))
    /\ UNCHANGED <<loading, errors, data, procs, nprocs, ncalls, cur, settled, server, given>>

(* The Goals page joins the goals slice with the plan and renders the rows. *)
CallGoalsWithPlan ==
    /\ given.fn = "goalsWithPlan"
    /\ result = NotApplied
    /\ LET joined == goalsWithPlan(given.arg.goals, given.arg.goalsPlan)
       IN  result' = Returned([joined |-> joined,
                               rows |-> [i \in 1 .. Len(joined) |-> GoalRow(joined[i])]])
    /\ UNCHANGED <<loading, errors, data, procs, nprocs, ncalls, cur, settled, server, given>>

(* The Dashboard renders the category breakdown of the summary. *)
CallCategoryBars ==
    /\ given.fn = "CategoryBars"
    /\ result = NotApplied
    /\ result' = Returned(CategoryBars(given.arg.breakdown))
    /\ UNCHANGED <<loading, errors, data, procs, nprocs, ncalls, cur, settled, server, given>>

(* A page formats a value it shows. *)
CallFormatCurrency ==
    /\ given.fn = "formatCurrency"
    /\ result = NotApplied
    /\ result' = Returned(formatCurrency(given.arg.page, given.arg.n))
    /\ UNCHANGED <<loading, errors, data, procs, nprocs, ncalls, cur, settled, server, given>>

CallFormatPercent ==
    /\ given.fn = "formatPercent"
    /\ result = NotApplied
    /\ result' = Returned(formatPercent(given.arg.page, given.arg.n))
    /\ UNCHANGED <<loading, errors, data, procs, nprocs, ncalls, cur, settled, server, given>>

(* The Insights page builds the narrative of the behaviors slice. *)
CallNarrativeLines ==
    /\ given.fn = "narrativeLines"
    /\ result = NotApplied
    /\ result' = Returned([lines |-> narrativeLines(given.arg), hasAny |-> hasAny(given.arg)])
    /\ UNCHANGED <<loading, errors, data, procs, nprocs, ncalls, cur, settled, server, given>>

(* The Insights page renders a report: its narrative and its bar list. *)
RenderInsights ==
    /\ given.fn = "Insights"
    /\ result = NotApplied
    /\ result' = Returned([lines |-> narrativeLines(given.arg), bars |-> InsightsBars(given.arg)])
    /\ UNCHANGED <<loading, errors, data, procs, nprocs, ncalls, cur, settled, server, given>>

(* The bases of the requests the process has sent so far. *)
BasesSent == IF result = NotApplied THEN <<>> ELSE result.val

(* The configuration of the running process changes: process.env[k] = v. *)
SetEnv(k, v) ==
    /\ given.fn = "process"
    /\ given.arg[k] # v
    /\ given' = Given("process", [given.arg EXCEPT ![k] = v])
    /\ UNCHANGED <<loading, errors, data, procs, nprocs, ncalls, cur, settled, server, result>>

(* request(): `const base = getBaseURL()`, the base the request is sent to. *)
SendRequest ==
    /\ given.fn = "process"
    /\ Len(BasesSent) < MaxCalls
    /\ result' = Returned(Append(BasesSent, getBaseURL(given.arg)))
    /\ UNCHANGED <<loading, errors, data, procs, nprocs, ncalls, cur, settled, server, given>>

PureNext ==
    \/ CallToQuery \/ CallRequest
    \/ CallComputeProgress
    \/ CallTone \/ CallBarWidth
    \/ CallGoalsWithPlan
    \/ CallCategoryBars
    \/ CallFormatCurrency \/ CallFormatPercent
    \/ CallNarrativeLines
    \/ RenderInsights
    \/ \E k \in EnvKeys : \E v \in EnvValues : SetEnv(k, v)
    \/ SendRequest

PureSpec == PureInit /\ [][PureNext]_vars

----------------------------------------------------------------------------
(* What the app shows at a route, as the sequence of the elements that    *)
(* carry a role or a text: a function of the route and of the store.      *)

Element(kind, text) == [kind |-> kind, text |-> text]

(* The title the Shell hands to the Topbar. *)
TitleOf(pathname) ==
    CASE pathname = "/" -> "Dashboard"
      [] pathname = "/transactions" -> "Transactions"
      [] pathname = "/budgets" -> "Budgets"
      [] pathname = "/goals" -> "Goals"
      [] pathname = "/insights" -> "Insights"
      [] pathname = "/settings" -> "Settings"
      [] OTHER -> "Smart Finance"

(* The layout components: the Sidebar is a list of links to the pages, the *)
(* Topbar shows the title as a text and no heading.                        *)
Sidebar ==
    <<Element("link", JText("Dashboard")), Element("link", JText("Transactions")),
      Element("link", JText("Budgets")), Element("link", JText("Goals")),
      Element("link", JText("Insights")), Element("link", JText("Settings"))>>
Topbar(title) == <<Element("text", JText(title))>>

(* A card that shows its title only once it has a value. *)
SummaryCardTitleWithValue(title, value, isLoading, errorMsg) ==
    IF isLoading THEN <<Element("status", JText("Loading..."))>>
    ELSE IF Truthy(errorMsg) THEN <<Element("alert", errorMsg)>>
    ELSE <<Element("title", JText(title)), Element("value", value)>>

(* SummaryCard: the title, then the spinner, the error or the value. *)
SummaryCard(title, value, isLoading, errorMsg) ==
    <<Element("title", JText(title))>>
        \o (IF isLoading THEN <<Element("status", JText("Loading..."))>>
            ELSE IF Truthy(errorMsg) THEN <<Element("alert", errorMsg)>>
            ELSE <<Element("value", value)>>)

(* The value of a card: the formatted field of the summary, the em dash    *)
(* when there is no summary.                                               *)
CardValue(field, summary) ==
    IF summary = JNull THEN JText(EmDash)
    ELSE [t |-> "formatted", field |-> field, summary |-> summary]

(* The Dashboard page: its heading, the five summary cards and the headings *)
(* of its three panels.                                                     *)
Dashboard ==
    LET errorMsg == IF errors["summary"] = JNull THEN Undef ELSE errors["summary"].message
        Card(title, field) ==
            SummaryCard(title, CardValue(field, data["summary"]), loading["summary"], errorMsg)
    IN  <<Element("heading", JText("Dashboard"))>>
        \o Card("Income", "income") \o Card("Expenses", "expenses")
        \o Card("Net Cash Flow", "net_cash_flow") \o Card("Savings Rate", "savings_rate")
        \o Card("Avg Daily Spend", "avg_daily_spend")
        \o <<Element("heading", JText("Category Breakdown")),
             Element("heading", JText("Overspending Alerts")),
             Element("heading", JText("Savings Suggestions"))>>

(* The Shell at the root route. *)
RootRoute == Sidebar \o Topbar(TitleOf("/")) \o Dashboard

----------------------------------------------------------------------------
(* Properties.                                                             *)

(* A step in which the promise of an invocation settles. *)
Settles == settled' # settled

(* The invocation p receives the answer to its request in this step and *)
(* starts its try or catch continuation.                                *)
Delivered(p) == procs[p].pc = "await" /\ procs'[p].pc = "finally"

(* C1, as stated: in every reachable state, the states between two store *)
(* updates of one action included, loading[d] implies errors[d] = null.  *)
C1_LoadingImpliesNoError ==
    \A s \in Slots : loading[s] => errors[s] = JNull

(* C1, amended: whenever no action is in the middle of a synchronous block *)
(* (the event loop is idle), loading[d] implies errors[d] = null, also     *)
(* when fetches on the same slot overlap.                                  *)
C1_LoadingImpliesNoErrorAtRest ==
    cur = 0 => \A s \in Slots : loading[s] => errors[s] = JNull

(* A fetch failed on a slot, and a later fetch on that slot is now in flight. *)
C1_Witness ==
    /\ cur = 0
    /\ settled.kind \in FetchKinds
    /\ ~settled.ok
    /\ \E p \in PIds :
          /\ procs[p].pc = "await"
          /\ procs[p].kind \in FetchKinds
          /\ p > settled.proc
          /\ Slot(procs[p].kind) = Slot(settled.kind)
          /\ loading[Slot(procs[p].kind)]

(* C2: in the state right after a fetch-style action completes successfully, *)
(* errors[d] of its slot is null and loading[d] is false, in every           *)
(* interleaving with other fetches on the slot.                              *)
C2_SuccessLeavesNoError ==
    [][(Settles /\ settled'.kind \in FetchKinds /\ settled'.ok)
          => (errors'[Slot(settled'.kind)] = JNull /\ ~loading'[Slot(settled'.kind)])]_vars

(* C3: when the request of a fetch-style action rejects with e, the action  *)
(* leaves errors[slot] = e and loading[slot] = false and rejects with e; a  *)
(* GET /transactions answered 500 {message: 'db down'} leaves               *)
(* {message: 'db down', status: 500, details: {message: 'db down'}}.        *)
DbDownError == [message |-> JText("db down"), status |-> 500, details |-> DbDown]
NetworkError == [message |-> JText("Failed to fetch"), status |-> 0, details |-> JNull]
ExpectedError(r) ==
    IF r = Http(500, TRUE, DbDown) THEN DbDownError ELSE NetworkError
C3_FetchFailure ==
    [][(Settles /\ settled'.kind \in FetchKinds
            /\ settled'.resp \in {Http(500, TRUE, DbDown), NetFail(FailedToFetch)})
          => /\ errors'[Slot(settled'.kind)] = ExpectedError(settled'.resp)
             /\ ~loading'[Slot(settled'.kind)]
             /\ ~settled'.ok
             /\ settled'.val = ExpectedError(settled'.resp)]_vars

(* GET /transactions was answered 500 {message: 'db down'}. *)
C3_Witness ==
    /\ settled.kind = "fetchTransactions"
    /\ settled.resp = Http(500, TRUE, DbDown)
    /\ errors["transactions"] = DbDownError
    /\ ~loading["transactions"]

(* The payload of a success response, and the value the slice of action k is *)
(* to hold for it.                                                           *)
PayloadOf(r) == IF r.body = Unparsable THEN JNull ELSE r.body
Succeeded(r) == r.net = "http" /\ r.status = 200
Expected(k, d) ==
    IF k \in {"fetchTransactions", "fetchBudgets", "fetchGoals"} \cup RefetchWrites /\ d = JNull
    THEN JList(<<>>) ELSE d

(* C4: when the request of a fetch-style action resolves with payload p, the *)
(* slice is exactly p (the empty sequence for the collections when p is      *)
(* null), nothing of the previous value is kept, and loading[slot] is false. *)
C4_FetchSuccess ==
    [][(Settles /\ settled'.kind \in FetchKinds /\ Succeeded(settled'.resp))
          => /\ data'[Slice(settled'.kind)] =
                    Expected(settled'.kind, PayloadOf(settled'.resp))
             /\ ~loading'[Slot(settled'.kind)]
             /\ settled'.ok]_vars

(* fetchBudgets stored [e2, e3]; a later fetchBudgets stores [e1] in its place. *)
C4_Witness ==
    /\ settled.kind = "fetchBudgets"
    /\ settled.ok
    /\ settled.val = JList(<<"e2", "e3">>)
    /\ \E p \in PIds :
          /\ p > settled.proc
          /\ procs[p].kind = "fetchBudgets"
          /\ procs[p].pc = "finally"
          /\ procs[p].resp = Http(200, TRUE, JList(<<"e1">>))
          /\ data["budgets"] = JList(<<"e1">>)

(* C5: a write action with a refresh, once its mutation succeeded, sends     *)
(* exactly one list request for its collection, without query parameters;    *)
(* when that request succeeds the slice is exactly its payload (the empty    *)
(* sequence when null), never the response of the mutation.                  *)
ListRequestOf(k) ==
    IF k \in TxWrites THEN Req("GET", "/transactions", NoArg, NoArg)
    ELSE Req("GET", "/goals", NoArg, NoArg)
C5_WriteThenRefetch ==
    [][/\ \A p \in PIds :
            (procs[p].kind \in RefetchWrites /\ procs'[p] # procs[p])
               => \/ /\ Len(procs[p].reqs) = 1
                     /\ \/ (Settles /\ settled'.proc = p /\ ~settled'.ok)
                        \/ /\ Succeeded(procs'[p].resp)
                           /\ procs'[p].reqs = <<procs[p].reqs[1], ListRequestOf(procs[p].kind)>>
                           /\ data' = data
                  \/ /\ Len(procs[p].reqs) = 2
                     /\ Settles
                     /\ settled'.proc = p
       /\ (Settles /\ settled'.kind \in RefetchWrites /\ settled'.ok)
            => /\ Len(settled'.reqs) = 2
               /\ settled'.reqs[2] = ListRequestOf(settled'.kind)
               /\ Succeeded(settled'.resp)
               /\ data'[Slice(settled'.kind)] =
                      Expected(settled'.kind, PayloadOf(settled'.resp))]_vars

(* updateTx refreshed the list without parameters while the page's filtered *)
(* fetchTransactions, made before it, is still in flight.                   *)
C5_Witness ==
    /\ settled.kind = "updateTx"
    /\ settled.ok
    /\ settled.val = JObj(JText("o1"), Undef, Undef, Undef)
    /\ settled.reqs[2].params = NoArg
    /\ data["transactions"] = JList(<<"e1">>)
    /\ \E p \in PIds :
          /\ p < settled.proc
          /\ procs[p].kind = "fetchTransactions"
          /\ procs[p].pc = "await"
          /\ procs[p].reqs[1].params = "q1"

(* C6: after upsertBudget resolves successfully, the store has sent a list *)
(* request for budgets after the write and the budgets slice holds its     *)
(* response.                                                               *)
C6_UpsertRefetches ==
    [][(Settles /\ settled'.kind = "upsertBudget" /\ settled'.ok)
          => /\ Len(settled'.reqs) = 2
             /\ settled'.reqs[2].method = "GET"
             /\ settled'.reqs[2].path = "/budgets"
             /\ data'["budgets"] = Expected("fetchBudgets", PayloadOf(settled'.resp))]_vars

(* A list response for collection c arrives in this step, and v is the value *)
(* the slice is to hold for it.                                              *)
PathOf(c) ==
    CASE c = "transactions" -> "/transactions"
      [] c = "budgets" -> "/budgets"
      [] c = "goals" -> "/goals"
ListArrives(c, v) ==
    \E p \in PIds :
        /\ procs[p].pc = "await"
        /\ InFlight(p).method = "GET"
        /\ InFlight(p).path = PathOf(c)
        /\ \/ procs'[p].pc = "finally" /\ Succeeded(procs'[p].resp)
                 /\ v = Expected("fetchGoals", PayloadOf(procs'[p].resp))
           \/ Settles /\ settled'.proc = p /\ Succeeded(settled'.resp)
                 /\ v = Expected("fetchGoals", PayloadOf(settled'.resp))

(* A successful answer to the request of seedDemoClear arrives in this step. *)
ClearArrives ==
    \E p \in PIds :
        procs[p].kind = "seedDemoClear" /\ Delivered(p) /\ Succeeded(procs'[p].resp)

(* C7, as stated: a collection slice only ever changes to the payload of a  *)
(* list response that arrives; no action, the seed actions included, writes *)
(* a mutation response or a locally computed value.                         *)
C7_OnlyListResponses ==
    [][\A c \in Collections : data'[c] # data[c] => ListArrives(c, data'[c])]_vars

(* C7, amended: a collection slice only ever changes to the payload of a    *)
(* list response that arrives, or, for transactions, to the empty sequence  *)
(* that a successful seedDemoClear writes locally.                          *)
C7_ListResponsesOrClear ==
    [][\A c \in Collections :
          data'[c] # data[c]
             => \/ ListArrives(c, data'[c])
                \/ c = "transactions" /\ data'[c] = JList(<<>>) /\ ClearArrives]_vars

(* seedDemoClear has emptied a transactions slice that createTx had filled *)
(* from its list response.                                                 *)
C7_Witness ==
    /\ settled.kind = "createTx"
    /\ settled.ok
    /\ settled.val = JObj(JText("o1"), Undef, Undef, Undef)
    /\ settled.resp = Http(200, TRUE, JList(<<"e1">>))
    /\ data["transactions"] = JList(<<>>)
    /\ \E p \in PIds : procs[p].kind = "seedDemoClear" /\ procs[p].pc = "finally"

(* C8: every store action that fails stores the error in the errors slot of *)
(* its domain and rejects with that error, the write actions included.      *)
DomainOf(k) ==
    IF k \in TxWrites THEN "transactions"
    ELSE IF k \in GoalWrites THEN "goals"
    ELSE IF k = "upsertBudget" THEN "budgets"
    ELSE Slot(k)
C8_FailureIsStored ==
    [][(Settles /\ ~Succeeded(settled'.resp))
          => /\ ~settled'.ok
             /\ settled'.val = ExpectedError(settled'.resp)
             /\ errors'[DomainOf(settled'.kind)] = settled'.val]_vars

(* C9: when two fetches of one domain are in flight together, neither is    *)
(* cancelled or dropped: each response is applied when it arrives, so the   *)
(* slice holds the payload that arrived last, also when it answers the      *)
(* older request.                                                           *)
Overlapped(p) ==
    \/ \E q \in PIds \ {p} : procs[q].kind = procs[p].kind /\ procs[q].pc = "await"
    \/ settled.proc > p /\ settled.kind = procs[p].kind
C9_LastResponseWins ==
    [][\A p \in PIds :
          (procs[p].kind \in FetchKinds /\ procs[p].pc = "await" /\ Overlapped(p))
             => /\ procs'[p] # procs[p] => Delivered(p)
                /\ (Delivered(p) /\ Succeeded(procs'[p].resp))
                      => data'[Slice(procs[p].kind)] =
                            Expected(procs[p].kind, PayloadOf(procs'[p].resp))]_vars

(* The response to the older fetchTransactions arrives after the newer one *)
(* was applied, and replaces it.                                           *)
C9_Witness ==
    \E p \in PIds :
        /\ procs[p].kind = "fetchTransactions"
        /\ procs[p].pc = "finally"
        /\ procs[p].resp = Http(200, TRUE, JList(<<"e1">>))
        /\ settled.proc > p
        /\ settled.kind = "fetchTransactions"
        /\ settled.resp = Http(200, TRUE, JList(<<"e2", "e3">>))
        /\ data["transactions"] = JList(<<"e1">>)

ClearReq == Req("DELETE", "/seed/demo/clear", NoArg, NoArg)
C11_ClearEmptiesLocally ==
    [][\A p \in PIds :
          /\ procs'[p].kind = "seedDemoClear" => procs'[p].reqs \in {<<>>, <<ClearReq>>}
          /\ (procs[p].kind = "seedDemoClear" /\ Delivered(p))
                => data' = IF Succeeded(procs'[p].resp)
                           THEN [data EXCEPT !["transactions"] = JList(<<>>)]
                           ELSE data]_vars

(* seedDemoClear has emptied a transactions slice that fetchTransactions had *)
(* filled, and has sent nothing but its clear request.                       *)
C11_Witness ==
    /\ settled.kind = "fetchTransactions"
    /\ settled.ok
    /\ settled.val = JList(<<"e2", "e3">>)
    /\ data["transactions"] = JList(<<>>)
    /\ \E p \in PIds :
          /\ p > settled.proc
          /\ procs[p].kind = "seedDemoClear"
          /\ procs[p].pc = "finally"
          /\ Succeeded(procs[p].resp)
          /\ procs[p].reqs = <<ClearReq>>

(* The ten domains of the store, and the key of loading and errors under *)
(* which the pages read the status of a domain.                          *)
Domains == Slices \cup {"seed"}
StatusKey(d) ==
    CASE d = "behaviors" -> "summary"
      [] d = "budgetSummary" -> "budgets"
      [] d = "savingsAdvice" -> "advice"
      [] OTHER -> d

(* Invocation p of the fetch-style action k takes this step. *)
FetchStep(p, k) ==
    /\ k \in FetchKinds
    /\ procs'[p] # procs[p]
    /\ (procs[p].kind = k \/ procs'[p].kind = k)

(* C12: each of the ten domains has its own loading flag and error: a step   *)
(* of a fetch-style action for domain A changes neither the loading flag nor *)
(* the error reported for any other domain B.                                *)
C12_OwnStatusPerDomain ==
    [][\A p \in PIds : \A k \in FetchKinds :
          FetchStep(p, k)
             => \A b \in Domains \ {Slice(k)} :
                   /\ loading'[StatusKey(b)] = loading[StatusKey(b)]
                   /\ errors'[StatusKey(b)] = errors[StatusKey(b)]]_vars

(* The ids of the goals the store holds, and of the goals its plan is for. *)
GoalIds == IdsOf(data["goals"].items)
PlanIds ==
    IF data["goalsPlan"].t = "plan"
    THEN {data["goalsPlan"].goals[i] : i \in 1 .. Len(data["goalsPlan"].goals)}
    ELSE {}

(* C13: in every reachable state in which the store holds goals and a goals *)
(* plan, the ids of the plan's goals are ids of goals of the goals slice,   *)
(* also after a goal write has replaced the goals slice and before the plan *)
(* is fetched again.                                                        *)
C13_PlanIdsWithinGoals ==
    (data["goalsPlan"].t = "plan" /\ data["goals"].items # <<>>) => PlanIds \subseteq GoalIds

(* The most recent settled promise is a successful createTx; a list fetch of *)
(* transactions invoked later than that createTx is answered successfully in *)
(* this step, and no write or seed action is running.                        *)
ListAfterCreate(p) ==
    /\ settled.kind = "createTx"
    /\ settled.ok
    /\ p > settled.proc
    /\ procs[p].kind = "fetchTransactions"
    /\ Delivered(p)
    /\ Succeeded(procs'[p].resp)
    /\ \A q \in PIds : procs[q].kind \notin WriteKinds \cup SeedKinds

(* The positions of list xs that hold an entity with visible fields f, or id i. *)
WithFields(xs, f) == {i \in 1 .. Len(xs) : xs[i].fields = f}
WithId(xs, id) == {i \in 1 .. Len(xs) : xs[i].id = id}

(* C14, as stated: against a server that stores created transactions, after  *)
(* createTx(payload) resolves and a following list fetch completes, with no  *)
(* other write in between, the transactions slice contains exactly one       *)
(* entity whose visible fields equal payload.                                *)
C14_RoundTrip ==
    [][\A p \in PIds :
          ListAfterCreate(p)
             => Cardinality(WithFields(data'["transactions"].items, settled.reqs[1].body)) = 1]_vars

(* C14, amended: the slice then contains the created entity (the one with   *)
(* the id the server assigned) exactly once, with visible fields equal to   *)
(* payload, when the fetch has no filter or its filter admits payload, and  *)
(* does not contain it otherwise; entities stored earlier with the same     *)
(* visible fields are listed as well.                                       *)
C14_RoundTripCreated ==
    [][\A p \in PIds :
          ListAfterCreate(p)
             => LET xs == data'["transactions"].items
                    payload == settled.reqs[1].body
                    created == WithId(xs, settled.val.id)
                IN  /\ settled.val.fields = payload
                    /\ IF Admits(InFlight(p).params, payload)
                       THEN /\ Cardinality(created) = 1
                            /\ created \subseteq WithFields(xs, payload)
                       ELSE created = {}
                    /\ xs = SelectSeq(server'.rows["transactions"],
                                      LAMBDA e : Admits(InFlight(p).params, e.fields))]_vars

(* createTx(p1) resolved against a server that already stored a transaction  *)
(* with the visible fields p1; the following list fetch has delivered both.  *)
C14_Witness ==
    /\ settled.kind = "createTx"
    /\ settled.ok
    /\ settled.reqs[1].body = "p1"
    /\ \E p \in PIds :
          /\ p > settled.proc
          /\ procs[p].kind = "fetchTransactions"
          /\ procs[p].pc = "finally"
          /\ Succeeded(procs[p].resp)
          /\ Cardinality(WithId(data["transactions"].items, settled.val.id)) = 1
          /\ Cardinality(WithFields(data["transactions"].items, "p1")) = 2

(* C15: no action retries.  An invocation sends a request only at its entry  *)
(* and, for a write with a refresh, once more after its mutation succeeded;  *)
(* no invocation sends a request twice; when a request fails the invocation  *)
(* sends nothing more; and invocations are made only by callers, or by       *)
(* seedDemoLoad for its two refreshes once its seed request succeeded.       *)
C15_NoRetry ==
    [][\A p \in PIds :
          LET old == procs[p].reqs
              new == procs'[p].reqs
          IN  /\ new # old
                    => \/ new = <<>>
                       \/ /\ old = <<>>
                          /\ Len(new) = 1
                          /\ procs[p].pc \in {"idle", "clearError"}
                       \/ /\ procs[p].kind \in RefetchWrites
                          /\ Len(old) = 1
                          /\ new = <<old[1], ListRequestOf(procs[p].kind)>>
                          /\ Succeeded(procs'[p].resp)
              /\ \A i, j \in 1 .. Len(new) : i # j => new[i] # new[j]
              /\ (procs[p].pc = "await" /\ procs'[p] # procs[p]
                     /\ ~Succeeded(IF Settles THEN settled'.resp ELSE procs'[p].resp))
                    => new \in {old, <<>>} /\ procs'[p].pc \in {"finally", "idle"}
              /\ (procs[p].kind = "none" /\ procs'[p].kind # "none")
                    => \/ ncalls' = ncalls + 1 /\ procs'[p].parent = 0
                       \/ /\ procs'[p].parent # 0
                          /\ procs'[procs'[p].parent].kind = "seedDemoLoad"
                          /\ Succeeded(procs'[procs'[p].parent].resp)]_vars

(* The one call made, a fetch, has failed after a single request, and nothing *)
(* is in flight.                                                              *)
C15_Witness ==
    /\ ncalls = 1
    /\ settled.kind = "fetchTransactions"
    /\ ~settled.ok
    /\ settled.reqs = <<Req("GET", "/transactions", "q1", NoArg)>>
    /\ \A p \in PIds : procs[p] = Idle

----------------------------------------------------------------------------
(* Properties of the transport client, under PureSpec.                     *)

(* request() has been applied to the raw answer given.arg. *)
RequestReturned == given.fn = "request" /\ result.t = "returned"

(* The body as request() parsed it: null when reading it threw. *)
ParsedBody(r) == IF r.body \in {Unparsable, BodyAborted} THEN JNull ELSE r.body

(* A value that is there: not undefined, null, the empty text, 0 or false. *)
Present(v) == v \notin {Undef, JNull, JText(""), JNum(0), JFalse}

(* The first of message, detail, error of object d that is there, else Undef. *)
FirstPresent(d) ==
    LET fs == <<d.message, d.detail, d.error>>
        there == {i \in 1 .. 3 : Present(fs[i])}
    IN  IF there = {} THEN Undef
        ELSE fs[CHOOSE i \in there : \A j \in there : i <= j]

(* C16: on every non-success status request rejects with {message, status,   *)
(* details}: status is the status of the response, details the parsed body   *)
(* when there is one and null otherwise, message the first of body.message,  *)
(* body.detail, body.error that is there and 'Request failed with status N'  *)
(* when the body is absent, unparsable or has none of them; a 404 without a  *)
(* body gives 'Request failed with status 404'.                              *)
C16_NonSuccessRejects ==
    (RequestReturned /\ given.arg.net = "http" /\ ~ResOk(given.arg.status))
       => LET r == given.arg
              d == ParsedBody(r)
              e == result.val.val
          IN  /\ ~result.val.ok
              /\ DOMAIN e = {"message", "status", "details"}
              /\ e.status = r.status
              /\ e.details = IF Present(d) THEN d ELSE JNull
              /\ e.message = IF d.t = "obj" /\ FirstPresent(d) # Undef
                             THEN FirstPresent(d)
                             ELSE JText(StatusMessage(r.status))
              /\ r = Http(404, FALSE, JText(""))
                    => e.message = JText("Request failed with status 404")

(* A 404 whose body has an empty message, a detail and an error: the detail *)
(* is the message of the rejection and the body its details.                *)
C16_Witness ==
    /\ given = Given("request",
                     Http(404, TRUE, JObj(Undef, JText(""), JText("Not found"),
                                          JText("bad request"))))
    /\ result = Returned(Reject(
                    [message |-> JText("Not found"), status |-> 404,
                     details |-> JObj(Undef, JText(""), JText("Not found"),
                                      JText("bad request"))]))

(* C17: for every error request rejects with (network failure, abort, a      *)
(* non-success status with any body), status is 0 or exactly the status of   *)
(* the response and message is a non-empty string.                           *)
C17_NormalizedErrorShape ==
    (RequestReturned /\ ~result.val.ok)
       => LET r == given.arg
              e == result.val.val
          IN  /\ e.status \in {0} \cup (IF r.net = "http" THEN {r.status} ELSE {})
              /\ e.message.t = "text"
              /\ e.message.s # ""

(* The abort signal of the caller fired while the request was in flight: *)
(* before the response arrived, or while its body was being read.        *)
SignalFired(r) ==
    \/ r.net = "throw" /\ r.e.name = "AbortError"
    \/ r.net = "http" /\ r.body = BodyAborted

(* C18: when the abort signal fires while a request is in flight, request *)
(* rejects with exactly {message: 'Request aborted', status: 0,           *)
(* details: null}.                                                        *)
C18_AbortRejects ==
    (RequestReturned /\ SignalFired(given.arg))
       => result.val = Reject([message |-> JText("Request aborted"), status |-> 0,
                               details |-> JNull])

(* C19: when fetch fails with a network error e that is not an abort,      *)
(* request rejects with {message: String(e), status: 0, details: null}.    *)
C19_NetworkErrorMessage ==
    (RequestReturned /\ given.arg.net = "throw" /\ given.arg.e.name # "AbortError")
       => result.val = Reject([message |-> JText(given.arg.e.str), status |-> 0,
                               details |-> JNull])

(* What a reader of the query string gets back from an encoded token. *)
Decode(str) ==
    CASE str = "a%26b+c" -> "a&b c"
      [] str = "x%3Dy" -> "x=y"
      [] OTHER -> str

(* C20: the query string holds exactly the keys whose value is not null,    *)
(* not undefined and not the empty string, each once, as key=value with the *)
(* string form of its value; an omitted key appears nowhere, and when no    *)
(* key remains the query string is empty, without a '?'.                    *)
C20_QueryHasExactlyKeptKeys ==
    (given.fn = "toQuery" /\ result.t = "returned")
       => LET ps == given.arg
              q == result.val
              keys == {ParamKeys[i] : i \in 1 .. Len(ParamKeys)}
              kept == {k \in keys : ps[k] \notin {Undef, JNull, JText("")}}
              At(k) == {i \in 1 .. Len(q) : i % 4 = 2 /\ q[i] = k}
          IN  /\ Len(q) = 4 * Cardinality(kept)
              /\ \A i \in 1 .. Len(q) :
                    /\ (q[i] = "?") <=> (i = 1)
                    /\ (i % 4 = 1 /\ i > 1) => q[i] = "&"
                    /\ i % 4 = 3 => q[i] = "="
                    /\ q[i] \notin {"a&b c", "x=y"}
              /\ \A k \in keys :
                    /\ Cardinality(At(k)) = IF k \in kept THEN 1 ELSE 0
                    /\ \A i \in At(k) : Decode(q[i + 2]) = StringOf(ps[k])
                    /\ k \notin kept => \A i \in 1 .. Len(q) : q[i] # k

(* {start: 'a&b c', end: '', category: 0} gives ?start=a%26b+c&category=0. *)
C20_Witness ==
    /\ given = Given("toQuery", [k \in {"start", "end", "category"} |->
                                    CASE k = "start" -> JText("a&b c")
                                      [] k = "end" -> JText("")
                                      [] k = "category" -> JNum(0)])
    /\ result = Returned(<<"?", "start", "=", "a%26b+c", "&", "category", "=", "0">>)

(* C21: a response with a success status resolves request with the parsed   *)
(* payload; a body that fails to parse gives a null payload and no          *)
(* rejection of its own: request resolves with null on a success status and *)
(* rejects with 'Request failed with status N' and details null on a        *)
(* non-success status.                                                      *)
C21_ParseFailureIsNull ==
    (RequestReturned /\ given.arg.net = "http")
       => LET r == given.arg
              success == r.status \in 200 .. 299
          IN  /\ success => result.val = Resolve(ParsedBody(r))
              /\ (success /\ r.body = Unparsable) => result.val = Resolve(JNull)
              /\ (~success /\ r.body = Unparsable)
                    => result.val = Reject([message |-> JText(StatusMessage(r.status)),
                                            status |-> r.status, details |-> JNull])

(* A 200 with a JSON content type and a body that is not JSON resolves with null. *)
C21_Witness ==
    /\ given = Given("request", Http(200, TRUE, Unparsable))
    /\ result = Returned(Resolve(JNull))

----------------------------------------------------------------------------
(* Properties of the functions of the pages, under PureSpec.               *)

(* C22: for every goal with target_amount > 0 and any current_amount,      *)
(* computeProgress returns 0 <= pct <= 100, and pct = 100 exactly when     *)
(* current_amount >= target_amount, the rounding to one decimal included;  *)
(* for target_amount <= 0 it returns 0.                                    *)
C22_ProgressWithinBounds ==
    (given.fn = "computeProgress" /\ result.t = "returned")
       => LET c == NumberOrZero(given.arg.current)
              t == NumberOrZero(given.arg.target)
              pct == result.val.pct
          IN  /\ t > 0 => /\ 0 <= pct /\ pct <= 1000
                          /\ (pct = 1000) <=> (c >= t)
              /\ t <= 0 => pct = 0

(* C23: the tier of a budget-summary row is danger exactly when             *)
(* utilization_pct > 90, success exactly when utilization_pct < 70 and warn *)
(* otherwise; 95 gives danger, 70 warn, 69.9 success, and an absent         *)
(* utilization_pct counts as 0.                                             *)
C23_TierByUtilization ==
    (given.fn = "Tone" /\ result.t = "returned")
       => LET p == IF given.arg \in {Undef, JNull} THEN 0 ELSE given.arg.n
              tier == result.val
          IN  /\ (tier = "danger") <=> (p > 900)
              /\ (tier = "success") <=> (p < 700)
              /\ (tier = "warn") <=> (700 <= p /\ p <= 900)
              /\ p = 950 => tier = "danger"
              /\ p = 700 => tier = "warn"
              /\ p = 699 => tier = "success"

(* A row with utilization_pct 90 is rendered with the tier warn. *)
C23_Witness ==
    /\ given = Given("Tone", JNum(900))
    /\ result = Returned("warn")

(* C24: the bar width of every row of a budget-summary table is             *)
(* spent / M * 100, M being the maximum over the rows of max(spent, budget, *)
(* 1), and it lies in [0, 100] for every spent and budget, zero, absent and *)
(* negative amounts included.                                               *)
C24_BarWidthWithinBounds ==
    (given.fn = "BarWidth" /\ result.t = "returned")
       => LET rows == given.arg.items
              Amt(v) == IF v = Undef THEN 0 ELSE v.n
              M == CHOOSE b \in 1 .. 250 :
                      /\ \A i \in 1 .. Len(rows) :
                            Amt(rows[i].spent) <= b /\ Amt(rows[i].budget) <= b
                      /\ \/ b = 1
                         \/ \E i \in 1 .. Len(rows) :
                               Amt(rows[i].spent) = b \/ Amt(rows[i].budget) = b
              w == result.val
          IN  /\ w.num * M = Amt(rows[given.arg.row].spent) * 100 * w.den
              /\ 0 <= w.num
              /\ w.num <= 100 * w.den

RankedByValue(b, bars) ==
    LET top == CHOOSE v \in BreakdownValues \cup {0} :
                  /\ \A i \in 1 .. Len(b) : b[i].val <= v
                  /\ Len(b) = 0 \/ \E i \in 1 .. Len(b) : b[i].val = v
    IN  /\ Len(bars) = Len(b)
        /\ \A i \in 1 .. Len(b) :
              Cardinality({j \in 1 .. Len(bars) :
                             bars[j].cat = b[i].cat /\ bars[j].val = b[i].val}) = 1
        /\ \A i, j \in 1 .. Len(bars) : i < j => bars[i].val >= bars[j].val
        /\ top # 0 => \A i \in 1 .. Len(bars) :
                          bars[i].width.num * top = bars[i].val * 100 * bars[i].width.den
        /\ (\A i \in 1 .. Len(b) : b[i].val = 0)
              => \A i \in 1 .. Len(bars) : bars[i].width.num = 0

(* The breakdown {Groceries: 300, Rent: 1200, Fun: 100}. *)
ExampleBreakdown ==
    <<[cat |-> "Groceries", val |-> 300], [cat |-> "Rent", val |-> 1200],
      [cat |-> "Fun", val |-> 100]>>

NarrativeFollows(lines, signal) ==
    /\ [i \in 1 .. Len(lines) |-> lines[i].kind]
          = SelectSeq(<<"leader", "day", "income">>, LAMBDA k : signal[k])
    /\ \A i \in 1 .. Len(lines) :
          lines[i].kind = "income"
             => lines[i].word = IF lines[i].subject = JNum(1) THEN "day" ELSE "days"
    /\ (lines = <<>>) <=> (\A k \in DOMAIN signal : ~signal[k])

(* C27 as stated: the narrative of a BehaviorsReport is the sequence of at   *)
(* most three sentences in the order leading category, most expensive day,  *)
(* income-day count, with a sentence exactly when its signal is present     *)
(* (top_spending_categories non-empty; most_expensive_day present;          *)
(* income_days_count an integer), 'day' for the count 1 and 'days'          *)
(* otherwise; it is empty exactly when no signal is present.                *)
C27_NarrativeBySignal ==
    (given.fn = "narrativeLines" /\ result.t = "returned" /\ given.arg # JNull)
       => LET b == given.arg
          IN  NarrativeFollows(result.val.lines,
                 [k \in {"leader", "day", "income"} |->
                     CASE k = "leader" -> /\ b.top_spending_categories.t = "list"
                                          /\ Len(b.top_spending_categories.items) > 0
                       [] k = "day" -> b.most_expensive_day \notin {Undef, JNull}
                       [] k = "income" -> b.income_days_count.t = "num"])

(* C27, amended: the leading-category sentence is there exactly when        *)
(* top_spending_categories is a list whose first entry is a category, the   *)
(* most-expensive-day sentence exactly when most_expensive_day has a date   *)
(* and a total_spent that is not null, the income sentence exactly when     *)
(* income_days_count is a number; a report without data has no sentence.    *)
C27_NarrativeByUsableSignal ==
    (given.fn = "narrativeLines" /\ result.t = "returned")
       => LET b == given.arg
          IN  IF b = JNull THEN result.val.lines = <<>>
              ELSE NarrativeFollows(result.val.lines,
                     [k \in {"leader", "day", "income"} |->
                         CASE k = "leader" -> /\ b.top_spending_categories.t = "list"
                                              /\ Len(b.top_spending_categories.items) > 0
                                              /\ b.top_spending_categories.items[1] # JNull
                           [] k = "day" -> /\ b.most_expensive_day \notin {Undef, JNull}
                                           /\ b.most_expensive_day.date \notin {Undef, JNull, JText("")}
                                           /\ b.most_expensive_day.total_spent \notin {Undef, JNull}
                           [] k = "income" -> b.income_days_count.t = "num"])

(* A report with two categories, a day with date and total, and one income *)
(* day gives the three sentences, the last one with 'day'.                 *)
C27_Witness ==
    /\ given = Given("narrativeLines",
                     Report(JList(<<Cat(JText("Rent"), JNum(1200)), Cat(JText("Fun"), JNum(100))>>),
                            Day(JText("2024-05-01"), JNum(120)), JNum(1)))
    /\ result.t = "returned"
    /\ result.val.lines =
          <<Sentence("leader", JText("Rent"), Currency(1200), ""),
            Sentence("day", JText("2024-05-01"), Currency(120), ""),
            Sentence("income", JNum(1), Undef, "day")>>

(* C28: every currency and percent formatter of the pages (formatCurrency   *)
(* of Dashboard, Budgets, Goals, Transactions and Insights; formatPercent   *)
(* of Dashboard and Budgets) returns the em dash for every input that is    *)
(* absent or not numeric (null, undefined, NaN, a text that is no number),  *)
(* and never a rendering of 0 or of NaN.                                    *)
C28_PlaceholderForNonNumeric ==
    (/\ given.fn \in {"formatCurrency", "formatPercent"}
     /\ result.t = "returned"
     /\ given.arg.n \in {Undef, JNull, NaN, JText("abc")})
       => /\ result.val = JText(EmDash)
          /\ result.val \notin {Currency(0), CurrencyNaN, JNum(0)}

(* C29: the base endpoint is resolved once per process, as the first        *)
(* non-empty of REACT_APP_API_URL, REACT_APP_BACKEND_URL and                *)
(* http://localhost:3001 without its trailing slashes, and every request of *)
(* the process is sent to that base, also when the configuration changes    *)
(* afterwards.                                                              *)
C29_BaseResolvedOnce ==
    (given.fn = "process" /\ result.t = "returned")
       => \A i \in 1 .. Len(result.val) :
             /\ result.val[i] = result.val[1]
             /\ result.val[i] \in {"http://api.example", "http://backend.example",
                                   "http://localhost:3001"}

----------------------------------------------------------------------------
(* Properties of the root route, under Spec.                               *)

(* The number of elements of a kind and a text the root route shows. *)
Shown(kind, text) ==
    LET route == RootRoute
    IN  Cardinality({i \in 1 .. Len(route) :
                        route[i].kind = kind /\ route[i].text = JText(text)})

LastWriteSettles(p) ==
    /\ nprocs = 2
    /\ ncalls = 2
    /\ settled.proc \notin {0, p}
    /\ settled.kind \in RefetchWrites
    /\ settled.ok
    /\ procs[p].kind \in RefetchWrites
    /\ Slice(procs[p].kind) = Slice(settled.kind)
    /\ Settles
    /\ settled'.proc = p
    /\ settled'.ok

(* C31: once every one of two write actions on the same collection, issued  *)
(* concurrently or one after the other, has completed successfully and no   *)
(* request is in flight, the slice equals the server's collection as it is  *)
(* at that moment.                                                          *)
C31_WritesReflectServer ==
    [][\A p \in PIds :
          LastWriteSettles(p)
             => data'[Slice(settled'.kind)] = JList(server'.rows[Slice(settled'.kind)])]_vars

(* Invocation q, called by the Goals page handler h, sends its goals-plan *)
(* request in this step.                                                  *)
PlanRequestIssued(h, q) ==
    /\ procs[h].kind \in HandlerKinds
    /\ procs[q].parent = h
    /\ procs[q].kind = "fetchGoalsPlan"
    /\ procs[q].reqs = <<>>
    /\ procs'[q].reqs # <<>>

(* The write action that handler h awaits has settled, and h goes on. *)
HandlerResumes(h) ==
    cur = h /\ procs[h].kind \in HandlerKinds /\ procs[h].pc = "awaitWrite"

(* C32: a Goals page handler (handleSubmit, handleDelete) whose store action *)
(* resolved goes on, in the same turn of the event loop, to send a goals     *)
(* refresh and one goals-plan request, so the goals-plan request is issued   *)
(* after the mutation and its list request have both been answered; a        *)
(* handler whose store action rejected ends without sending anything; and a  *)
(* plan delivered to the refresh of a successful delete no longer names the  *)
(* deleted goal.                                                             *)
C32_PlanAfterMutation ==
    [][\A h \in PIds :
          /\ \A q \in PIds :
                PlanRequestIssued(h, q)
                   => /\ settled.proc = h + 1
                      /\ settled.kind \in GoalWrites
                      /\ settled.ok
                      /\ Len(settled.reqs) = 2
                      /\ Succeeded(settled.resp)
                      /\ procs'[q].reqs = <<Req("GET", "/advice/goals-plan", NoArg, NoArg)>>
                      /\ procs[h].pc = "awaitRefresh"
          /\ (HandlerResumes(h) /\ ~settled.ok)
                => /\ procs' = [procs EXCEPT ![h] = Idle]
                   /\ nprocs' = nprocs
                   /\ cur' = 0
          /\ (HandlerResumes(h) /\ settled.ok)
                => /\ procs'[h].pc = "refreshGoals"
                   /\ cur' = h
          /\ (cur' = 0 /\ procs'[h].kind \in HandlerKinds)
                => /\ procs'[h].pc \in {"awaitWrite", "awaitRefresh"}
                   /\ \A q \in procs'[h].waiting : procs'[q].reqs # <<>>
          /\ \A q \in PIds :
                (/\ procs[h].kind = "handleDelete"
                 /\ procs[q].parent = h
                 /\ procs[q].kind = "fetchGoalsPlan"
                 /\ Delivered(q)
                 /\ Succeeded(procs'[q].resp))
                   => /\ data'["goalsPlan"].t = "plan"
                      /\ \A i \in 1 .. Len(data'["goalsPlan"].goals) :
                            data'["goalsPlan"].goals[i] # procs[h].arg.id]_vars

(* handleDelete('e2') succeeded, and both its refreshes have been answered: *)
(* the goals and the plan the page joins are those after the delete.        *)
C32_Witness ==
    \E h \in PIds :
        /\ procs[h].kind = "handleDelete"
        /\ procs[h].arg.id = "e2"
        /\ procs[h].pc = "awaitRefresh"
        /\ procs[h].waiting = {}
        /\ cur = 0
        /\ errors["goals"] = JNull
        /\ errors["goalsPlan"] = JNull
        /\ data["goals"] = JList(<<Entity("e3", "p2")>>)
        /\ data["goalsPlan"] = JPlan(<<"e3">>)

(* The filters of the Transactions page change in this step, in the type only. *)
TypeChanges ==
    /\ given.arg.mounted
    /\ given'.arg.type # given.arg.type
    /\ \A f \in {"start", "end", "category"} : given'.arg[f] = given.arg[f]

(* start, end or category changes in this step. *)
RangeChanges ==
    /\ given.arg.mounted
    /\ \E f \in {"start", "end", "category"} : given'.arg[f] # given.arg[f]

(* The transactions of list xs whose type, 'expense' when they have none, is type. *)
OfType(xs, type) ==
    SelectSeq(xs, LAMBDA t : IF TxType(t) = Undef THEN type = "expense"
                             ELSE TxType(t) = JText(type))

(* C33: a change of the type filter sends no request, starts no action and  *)
(* leaves the store as it is; a fetchTransactions is started by a change of *)
(* the filters exactly when start, end or category changes, with the new    *)
(* start, end and category as its params; and the list the page shows is    *)
(* always the transactions of the slice of the selected type (of type       *)
(* 'expense' when they have none), the whole slice when no type is selected. *)
C33_TypeFilterOnClient ==
    [][/\ TypeChanges
            => UNCHANGED <<loading, errors, data, procs, nprocs, ncalls, cur, settled, server>>
       /\ RangeChanges
            => /\ nprocs' = nprocs + 1
               /\ procs'[nprocs'].kind = "fetchTransactions"
               /\ procs'[nprocs'].arg.v = FetchParams(given'.arg)
               /\ data' = data
       /\ \A p \in PIds :
            (procs[p].kind = "fetchTransactions" /\ procs[p].pc = "clearError"
                /\ procs'[p].pc = "await")
               => procs'[p].reqs = <<Req("GET", "/transactions", procs[p].arg.v, NoArg)>>
       /\ filtered' = IF given'.arg.type = "" THEN data'["transactions"].items
                      ELSE OfType(data'["transactions"].items, given'.arg.type)]_vars

(* With the slice [e2, e3] fetched, the type filter is set to 'income': the *)
(* page shows e2 only, the slice is as fetched and nothing is in flight.    *)
C33_Witness ==
    /\ given.arg.type = "income"
    /\ data["transactions"] = JList(<<"e2", "e3">>)
    /\ filtered = <<"e2">>
    /\ ncalls = 1
    /\ \A p \in PIds : procs[p] = Idle

(* C34: in every reachable state, loading[d] is true whenever a fetch-style *)
(* action using slot d has been started and has not yet completed, also     *)
(* when another fetch on the same slot has completed in the meantime.       *)
C34_LoadingWhileInFlight ==
    \A p \in PIds :
        procs[p].kind \in FetchKinds => loading[Slot(procs[p].kind)]

(* Invocation p of a write action is started or takes a step. *)
WriteStep(p) ==
    /\ procs'[p] # procs[p]
    /\ (procs[p].kind \in WriteKinds \/ procs'[p].kind \in WriteKinds)

WriteFails(p) ==
    procs[p].kind \in WriteKinds /\ Settles /\ settled'.proc = p /\ ~settled'.ok

(* C36: a failed operation leaves every slice as it was: the step in which  *)
(* a failed answer reaches a fetch-style or seed action, its finally block, *)
(* and the step in which the mutation or the list request of a write action *)
(* fails change no slice; and a write action whose mutation failed has sent *)
(* its mutation only, no list request.                                      *)
C36_FailureKeepsData ==
    [][\A p \in PIds :
          /\ (Delivered(p) /\ ~Succeeded(procs'[p].resp)) => data' = data
          /\ (procs[p].pc = "finally" /\ ~Succeeded(procs[p].resp) /\ procs'[p] # procs[p])
                => data' = data
          /\ WriteFails(p)
                => /\ data' = data
                   /\ nprocs' = nprocs
                   /\ \A q \in PIds \ {p} : procs'[q] = procs[q]
                   /\ settled'.reqs = procs[p].reqs
                   /\ ~Succeeded(procs[p].resp)
                         => settled'.reqs = <<FirstReq(procs[p].kind, procs[p].arg)>>]_vars

(* fetchGoals stored [e1]; then deleteGoal deleted a goal on the server, but *)
(* its list request failed: the slice is still [e1].                        *)
C36_Witness ==
    /\ settled.kind = "deleteGoal"
    /\ ~settled.ok
    /\ Len(settled.reqs) = 2
    /\ settled.resp = Http(500, TRUE, DbDown)
    /\ data["goals"] = JList(<<"e1">>)

(* C37: once seedDemoClear has succeeded, and as long as no action has      *)
(* completed since and no action invoked after the clear has stored its     *)
(* answer, the transactions slice is empty: the answer to a list request    *)
(* that was in flight when the clear succeeded does not fill it again.      *)
C37_ClearedStaysEmpty ==
    (/\ settled.kind = "seedDemoClear"
     /\ settled.ok
     /\ \A q \in PIds : q > settled.proc => procs[q].pc # "finally")
        => data["transactions"] = JList(<<>>)

(* C38: when every request that is sent is answered and callers stop making *)
(* calls, every entry of loading is false from some moment on.              *)
C38_LoadingEventuallyFalse == <>[](\A s \in Slots : ~loading[s])

(* seedDemoLoad and its two refreshes have completed after a fetchSummary *)
(* that failed: nothing is running and no loading flag is set.            *)
C38_Witness ==
    /\ settled.kind = "seedDemoLoad"
    /\ ncalls = MaxCalls
    /\ errors["summary"] # JNull
    /\ \A p \in PIds : procs[p] = Idle
    /\ \A s \in Slots : ~loading[s]

(* The seed request of invocation p of seedDemoLoad has succeeded and p has *)
(* not completed: its refreshes are being started or awaited.               *)
Refreshing(p) ==
    procs[p].kind = "seedDemoLoad" /\ procs[p].pc \in {"spawnGoals", "awaitAll"}

(* C39: during a seedDemoLoad whose seed request succeeded, loading.seed is *)
(* true until both refreshes have settled and seedDemoLoad completes; and a *)
(* refresh is started, and its request sent, only by a seedDemoLoad whose   *)
(* seed request has succeeded.                                              *)
C39_SeedFlagUntilRefreshed ==
    [][/\ \A p \in PIds : Refreshing(p)' => loading'["seed"]
       /\ \A q \in PIds :
            (procs[q] = Idle /\ procs'[q].parent # 0)
               => /\ procs'[procs'[q].parent].kind = "seedDemoLoad"
                  /\ Succeeded(procs'[procs'[q].parent].resp)
                  /\ procs'[q].reqs = <<>>]_vars

(* C40: for every report whose top_spending_categories is not empty, the    *)
(* category named in the leading-category sentence of the narrative is the  *)
(* category of the first bar of the ranked list, an entry with the largest  *)
(* amount, whatever the order of the list in the report.                    *)
C40_LeaderIsTopBar ==
    (/\ given.fn = "Insights"
     /\ result.t = "returned"
     /\ Len(topCats(given.arg).items) > 0)
        => /\ Len(result.val.lines) > 0
           /\ result.val.lines[1].kind = "leader"
           /\ result.val.lines[1].subject = result.val.bars[1].category
           /\ \A i \in 1 .. Len(topCats(given.arg).items) :
                 AmountOf(topCats(given.arg).items[i]) <= result.val.bars[1].amount

====
